---- MODULE Spec2Model ----
(***************************************************************************)
(* A model of kobo-server: the application lifecycle (App, ServerBuilder,  *)
(* Server and the background serving task) and the request pipeline        *)
(* (path normalisation, logging middleware, the forwarding handler, the    *)
(* initialization handler and the body codec).                             *)
(***************************************************************************)
EXTENDS Integers, Sequences, FiniteSets, TLC

\* Option<T>: None and Some(v) for structured values; the string None stands
\* for "no owner", "no result yet" in string-valued variables.
None == "None"
NoneOpt == [some |-> FALSE]
Some(v) == [some |-> TRUE, value |-> v]

(***************************************************************************)
(* Bounds of the model.                                                    *)
(***************************************************************************)
MaxShutdownCalls == 2

(***************************************************************************)
(* Callers of the App.  Each of RunProcs calls run() once, at any time;     *)
(* ShutProcs call shutdown(), MaxShutdownCalls times at most; WaitProcs    *)
(* call wait_until_running() and then server_address().                    *)
(***************************************************************************)
RunProcs == {"r1", "r2"}
ShutProcs == {"s1"}
WaitProcs == {"w1"}
Procs == RunProcs \cup ShutProcs \cup WaitProcs

\* command_line_arguments.rs: default port; 0 asks for an OS-assigned port.
DefaultPort == 8089
Ports == {0, DefaultPort}
\* The port the operating system hands out for a bind to port 0.
EphemeralPort == 49152

VARIABLES
    listener_builder,   \* ServerBuilder.listener_builder: "tcp" or "fake"
    port,               \* ServerBuilder.port
    bindOk,             \* whether the operating system lets the bind succeed
    taskOutcome,        \* what axum::serve returns once it has drained
    cancellation_token, \* App.cancellation_token
    builder_token,      \* ServerBuilder.cancellation_token / Server.cancellation_token
    server_started,     \* App.server_started
    server_builder,     \* App.server_builder: "Some" or None
    server,             \* App.server: None or a Server
    serverMutex,        \* owner of the App.server mutex, or None
    builderMutex,       \* owner of the App.server_builder mutex, or None
    task,               \* the spawned serving task
    handle,             \* what Server.handle yields once the task has ended
    pc,                 \* position of every caller
    local,              \* the Server a caller holds in a local variable
    result,             \* what the caller's last call returned
    calls,              \* number of calls each caller has made
    signal,             \* why wait_for_shutdown_signal returned
    lastAddress,        \* what server_address() last returned to the caller
    serverShutdowns,    \* number of Server::shutdown calls performed
    taker               \* the caller whose shutdown() took the server, or None

VARIABLES
    enable_request_logging,  \* ServerBuilder.enable_request_logging
    enable_response_logging, \* ServerBuilder.enable_response_logging
    frontend_url,            \* ServerState.frontend_url
    hpc,                     \* position of the request in the middleware chain
    inbound,                 \* the request as the caller sent it
    request,                 \* the request as it travels down the chain
    route,                   \* the handler the router dispatched to
    request_url,             \* initialization_handler's request_url
    recorded_requests,       \* the requests the Upstream Client was presented
    clientCalls,             \* number of KoboClient::request invocations
    upstream,                \* what the Upstream Client returned
    response                 \* the response as it travels up the chain

httpVars == <<enable_request_logging, enable_response_logging, frontend_url,
              hpc, inbound, request, route, request_url, recorded_requests,
              clientCalls, upstream, response>>

appVars == <<listener_builder, port, bindOk, taskOutcome, cancellation_token,
             builder_token, server_started, server_builder, server,
             serverMutex, builderMutex, task, handle, pc, local, result,
             calls, signal, lastAddress, serverShutdowns, taker>>

VARIABLES
    codec_case,     \* which codec function the caller exercises
    codec_pc,       \* the next codec call
    codec_text,     \* encode_response_body's text
    codec_compress, \* encode_response_body's should_compress
    codec_encoded,  \* what encode_response_body returned
    codec_bytes,    \* decode_response_body's bytes
    codec_gzipped,  \* decode_response_body's is_gzipped
    codec_decoded,  \* what decode_response_body returned
    codec_headers,  \* is_gzip_encoded's headers
    codec_is_gzip   \* what is_gzip_encoded returned

VARIABLES
    responses,      \* FakeKoboClient.responses
    enqueued,       \* every item ever enqueued, in order
    returned,       \* what the request() calls returned, in order
    fpc,            \* position of every caller of FakeKoboClient::request
    fake_request,   \* the request each caller passed
    overlap,        \* whether two operations on the client ever overlapped
    log_index       \* where in the log each caller's push put its request

codecVars == <<codec_case, codec_pc, codec_text, codec_compress,
               codec_encoded, codec_bytes, codec_gzipped, codec_decoded,
               codec_headers, codec_is_gzip>>

fakeVars == <<responses, enqueued, returned, fpc, fake_request, overlap,
              log_index>>

VARIABLES
    accepted,       \* how many connections the accept loop has accepted
    inflight        \* how many accepted requests have not been answered yet

serveVars == <<accepted, inflight>>

utilVars == <<codecVars, fakeVars, serveVars>>

vars == <<appVars, httpVars, utilVars>>

----
(***************************************************************************)
(* Listener abstraction.                                                   *)
(***************************************************************************)

\* Listener::accept: the TCP listener yields connections, FakeListener's
\* accept is pending forever.
Accepts(builder) == builder = "tcp"

\* IntoListener::into_listener: TokioTcpListener binds and may fail,
\* FakeListenerBuilder always succeeds.
into_listener(kind, ok) == IF kind = "tcp" THEN ok ELSE TRUE

\* Mutation: the configured port is published, whatever was bound.
local_addr_configured(kind, p) == [ip |-> "0.0.0.0", port |-> p]

\* Listener::local_addr: the TCP listener reports the port the operating
\* system bound, the fake listener reports the configured port.
local_addr(kind, p) ==
    IF kind = "tcp"
    THEN [ip |-> "0.0.0.0", port |-> IF p = 0 THEN EphemeralPort ELSE p]
    ELSE [ip |-> "0.0.0.0", port |-> p]

\* Server::address
address(s) == s.address

\* App::server_address
server_address ==
    IF server.some THEN Some(address(server.value)) ELSE NoneOpt

----
(***************************************************************************)
(* Construction: App::new (tcp) or App::with_server_builder (fake).        *)
(***************************************************************************)
\* What awaiting the JoinHandle of the serving task yields: the result of
\* axum::serve, or a JoinError when the task panicked.
TaskOutcomes == {"Ok", "Err", "JoinError"}

AppInit ==
    /\ listener_builder \in {"tcp", "fake"}
    /\ port \in Ports
    /\ bindOk \in BOOLEAN
    /\ (listener_builder = "fake" => bindOk)
    /\ taskOutcome \in TaskOutcomes
    /\ cancellation_token = FALSE
    /\ builder_token = FALSE
    /\ server_started = FALSE
    /\ server_builder = "Some"
    /\ server = NoneOpt
    /\ serverMutex = None
    /\ builderMutex = None
    /\ task = "none"
    /\ handle = None
    /\ pc = [p \in Procs |-> "idle"]
    /\ local = [p \in Procs |-> NoneOpt]
    /\ result = [p \in Procs |-> None]
    /\ calls = [p \in Procs |-> 0]
    /\ signal = [p \in RunProcs |-> None]
    /\ lastAddress = [p \in WaitProcs |-> NoneOpt]
    /\ serverShutdowns = 0
    /\ taker = None
    /\ accepted = 0
    /\ inflight = 0

----
(***************************************************************************)
(* Text, bytes and the body codec (utils/http_body.rs)                     *)
(*                                                                         *)
(* A text is a sequence of atoms (a scheme prefix, a host name, a path, a  *)
(* character); its UTF-8 encoding is a sequence of bytes: an ASCII atom    *)
(* is one byte, a multi-byte character several.                            *)
(***************************************************************************)

\* Result<T, StatusCode>
Ok(v) == [ok |-> TRUE, value |-> v]
Err(status) == [ok |-> FALSE, status |-> status]

\* routes/constants.rs
KOBO_API_BASE_URI == "storeapi.kobo.com"
\* "https://storeapi.kobo.com" as a text
KOBO_API_URL == <<"https://", "storeapi.kobo.com">>

\* StatusCode
BAD_REQUEST == 400
INTERNAL_SERVER_ERROR == 500
BAD_GATEWAY == 502

\* str::as_bytes of one atom
CharBytes(c) ==
    CASE c = "e-acute" -> <<"C3", "A9">>
      [] c = "U+FFFD" -> <<"EF", "BF", "BD">>
      [] OTHER -> <<c>>

\* Bytes that are no ASCII atom: leading and continuation bytes of the
\* multi-byte characters, a byte that occurs in no UTF-8 text, and the gzip
\* header, whose second byte 0x8B is no UTF-8.
NonAscii == {"C3", "A9", "EF", "BF", "BD", "FF", "1F8B"}

\* str::as_bytes / String::into_bytes
RECURSIVE as_bytes(_)
as_bytes(text) ==
    IF text = <<>> THEN <<>>
    ELSE CharBytes(Head(text)) \o as_bytes(Tail(text))

\* The length of the longest well-formed or ill-formed unit at the head of a
\* non-empty byte sequence, and the character it decodes to.
HeadUnit(b) ==
    IF Len(b) >= 2 /\ b[1] = "C3" /\ b[2] = "A9"
        THEN [len |-> 2, char |-> "e-acute", valid |-> TRUE]
    ELSE IF Len(b) >= 3 /\ b[1] = "EF" /\ b[2] = "BF" /\ b[3] = "BD"
        THEN [len |-> 3, char |-> "U+FFFD", valid |-> TRUE]
    ELSE IF Len(b) >= 2 /\ b[1] = "EF" /\ b[2] = "BF"
        THEN [len |-> 2, char |-> "U+FFFD", valid |-> FALSE]
    ELSE IF b[1] \in NonAscii
        THEN [len |-> 1, char |-> "U+FFFD", valid |-> FALSE]
    ELSE [len |-> 1, char |-> b[1], valid |-> TRUE]

\* String::from_utf8_lossy
RECURSIVE from_utf8_lossy(_)
from_utf8_lossy(b) ==
    IF b = <<>> THEN <<>>
    ELSE <<HeadUnit(b).char>>
            \o from_utf8_lossy(SubSeq(b, HeadUnit(b).len + 1, Len(b)))

\* Whether read_to_string accepts the bytes as UTF-8.
RECURSIVE valid_utf8(_)
valid_utf8(b) ==
    IF b = <<>> THEN TRUE
    ELSE /\ HeadUnit(b).valid
         /\ valid_utf8(SubSeq(b, HeadUnit(b).len + 1, Len(b)))

\* The gzip member: the magic header, the payload and the trailer that
\* carries the payload's size.
GzipMagic == "1F8B"
GzipTrailer(payload) == ToString(Len(payload))

\* compress_gzip
compress_gzip(text) ==
    <<GzipMagic>> \o as_bytes(text) \o <<GzipTrailer(as_bytes(text))>>

\* decompress_gzip: GzDecoder::read_to_string fails on a stream that is no
\* gzip member and on a payload that is not UTF-8.
decompress_gzip(bytes) ==
    LET payload == SubSeq(bytes, 2, Len(bytes) - 1)
    IN  IF /\ Len(bytes) >= 2
           /\ bytes[1] = GzipMagic
           /\ bytes[Len(bytes)] = GzipTrailer(payload)
           /\ valid_utf8(payload)
        THEN Ok(from_utf8_lossy(payload))
        ELSE Err(INTERNAL_SERVER_ERROR)

(***************************************************************************)
(* Headers, URIs, requests and responses                                   *)
(***************************************************************************)
HeaderNames ==
    {"host", "transfer-encoding", "content-encoding", "content-length"}
NoHeaders == [h \in HeaderNames |-> <<>>]

\* HeaderMap::insert replaces every value of the name, HeaderMap::remove
\* removes them all, HeaderMap::get yields the first.
insert(headers, name, v) == [headers EXCEPT ![name] = <<v>>]
remove(headers, name) == [headers EXCEPT ![name] = <<>>]
get(headers, name) ==
    IF headers[name] = <<>> THEN None ELSE Head(headers[name])

\* The number of bytes of a byte sequence: an ASCII atom has one byte per
\* character, the gzip header ten, every other byte atom is one byte.
RECURSIVE ByteLength(_)
ByteLength(bytes) ==
    IF bytes = <<>> THEN 0
    ELSE (IF Head(bytes) = GzipMagic THEN 10
          ELSE IF Head(bytes) \in NonAscii THEN 1
          ELSE Len(Head(bytes)))
         + ByteLength(Tail(bytes))

\* The value of a content-length header that states the size of the bytes.
ContentLength(bytes) == ToString(ByteLength(bytes))

\* Body::from(bytes), Body::empty()
BodyFrom(bytes) == [readable |-> TRUE, bytes |-> bytes]
EmptyBody == BodyFrom(<<>>)

\* StatusCode::into_response
StatusResponse(status) ==
    [status |-> status, headers |-> NoHeaders, body |-> EmptyBody]

\* (StatusCode, String)::into_response
MessageResponse(status, message) ==
    [status |-> status, headers |-> NoHeaders,
     body |-> BodyFrom(as_bytes(message))]

\* buffer_body
buffer_body(body) ==
    IF body.readable
    THEN Ok(body.bytes)
    ELSE [ok |-> FALSE, status |-> INTERNAL_SERVER_ERROR,
          message |-> <<"Failed to read body">>]

\* Mutation: a compound value that names gzip counts as gzip.
is_gzip_encoded_compound(headers) ==
    get(headers, "content-encoding") \in {"gzip", "br, gzip"}

\* is_gzip_encoded
is_gzip_encoded(headers) == get(headers, "content-encoding") = "gzip"

\* Mutation: bytes that are no gzip stream are decoded as plain text.
decode_response_body_lenient(bytes, is_gzipped) ==
    IF is_gzipped /\ decompress_gzip(bytes).ok
    THEN decompress_gzip(bytes)
    ELSE Ok(from_utf8_lossy(bytes))

\* decode_response_body
decode_response_body(bytes, is_gzipped) ==
    IF is_gzipped
    THEN decompress_gzip(bytes)
    ELSE Ok(from_utf8_lossy(bytes))

\* Mutation: the text is never compressed.
encode_response_body_plain(text, should_compress) ==
    Ok(BodyFrom(as_bytes(text)))

\* encode_response_body
encode_response_body(text, should_compress) ==
    IF should_compress
    THEN Ok(BodyFrom(compress_gzip(text)))
    ELSE Ok(BodyFrom(as_bytes(text)))

\* str::replace: every non-overlapping occurrence, left to right.
RECURSIVE replace(_, _, _)
replace(text, from, to) ==
    IF Len(text) < Len(from) THEN text
    ELSE IF SubSeq(text, 1, Len(from)) = from
         THEN to \o replace(SubSeq(text, Len(from) + 1, Len(text)), from, to)
         ELSE <<Head(text)>> \o replace(Tail(text), from, to)

\* Whether the text contains the pattern.
RECURSIVE contains(_, _)
contains(text, pat) ==
    /\ Len(text) >= Len(pat)
    /\ \/ SubSeq(text, 1, Len(pat)) = pat
       \/ contains(Tail(text), pat)

(***************************************************************************)
(* Paths: sequences of "/" and segment atoms.                              *)
(***************************************************************************)
RECURSIVE TrimStart(_)
TrimStart(path) ==
    IF path # <<>> /\ Head(path) = "/" THEN TrimStart(Tail(path)) ELSE path

RECURSIVE TrimEnd(_)
TrimEnd(path) ==
    IF path # <<>> /\ path[Len(path)] = "/"
    THEN TrimEnd(SubSeq(path, 1, Len(path) - 1))
    ELSE path

\* Uri::path: "" when the URI has no path-and-query.
PathOf(uri) ==
    IF uri.path_and_query.some THEN uri.path_and_query.value.path ELSE <<>>

\* Mutation: the path is left as it arrived.
NormalizePath_identity(uri) == uri

\* tower_http NormalizePathLayer::trim_trailing_slash: a path that ends with
\* "/" or starts with "//" becomes "/" followed by the path with the slashes
\* at both ends trimmed; the query is kept.
NormalizePath(uri) ==
    LET path == PathOf(uri)
    IN  IF \/ path = <<>>
           \/ /\ path[Len(path)] # "/"
              /\ ~(Len(path) >= 2 /\ path[1] = "/" /\ path[2] = "/")
        THEN uri
        ELSE [uri EXCEPT !.path_and_query =
                Some([path |-> <<"/">> \o TrimEnd(TrimStart(path)),
                      query |-> uri.path_and_query.value.query])]

\* The atoms a path-and-query may consist of: PathAndQuery::from_str accepts
\* what it produced itself.
UriAtoms == {"/", "v1", "initialization", "some", "path"}

\* generate_kobo_uri_parts / generate_kobo_uri
generate_kobo_uri(path_and_query) ==
    IF \A i \in 1..Len(path_and_query.path) :
            path_and_query.path[i] \in UriAtoms
    THEN Ok([scheme |-> "https", authority |-> KOBO_API_BASE_URI,
             path_and_query |-> Some(path_and_query)])
    ELSE Err(BAD_REQUEST)

\* format!("{scheme}://{authority}")
SchemeAuthority(scheme, authority) ==
    <<IF scheme = "https" THEN "https://" ELSE "http://", authority>>

(***************************************************************************)
(* The requests and upstream results the model draws from.                 *)
(***************************************************************************)
INIT_PATH == <<"/", "v1", "/", "initialization">>

InboundPaths ==
    { <<"/">>,
      <<"/", "/", "/", "some", "/", "path", "/", "/", "/">>,
      <<"/", "some", "/", "/", "path">>,
      INIT_PATH,
      <<"/", "/", "v1", "/", "initialization", "/">> }

OriginForm(path, query) ==
    [scheme |-> None, authority |-> None,
     path_and_query |-> Some([path |-> path, query |-> query])]

AbsoluteForm(scheme, authority, path) ==
    [scheme |-> scheme, authority |-> authority,
     path_and_query |-> Some([path |-> path, query |-> None])]

AuthorityForm(authority) ==
    [scheme |-> None, authority |-> authority, path_and_query |-> NoneOpt]

InboundUris ==
    { OriginForm(p, None) : p \in InboundPaths }
    \cup { OriginForm(<<"/", "some", "/">>, "x=1") }
    \cup { AbsoluteForm("http", "example.com:8080", p) :
              p \in { INIT_PATH, <<"/", "/", "v1", "/", "initialization", "/">>,
                      <<"/", "some", "/">> } }
    \cup { AbsoluteForm("https", "secure.example.com:443", INIT_PATH) }
    \cup { AbsoluteForm("https", "storeapi.kobo.com", INIT_PATH) }
    \cup { AuthorityForm("example.com:8080") }

InboundHosts == { <<>>, <<"example.com:8080">>, <<"a.test", "b.test">> }

InboundBodies ==
    { EmptyBody, BodyFrom(<<"t">>), [readable |-> FALSE, bytes |-> <<"t">>] }

\* A request states the encoding of its body or not.
InboundEncodings(body) ==
    IF body = BodyFrom(<<"t">>) THEN { <<>>, <<"gzip">> } ELSE { <<>> }

InboundRequests ==
    UNION { { [method |-> m, uri |-> u,
               headers |-> [NoHeaders EXCEPT !["host"] = h,
                                             !["content-encoding"] = ce],
               body |-> b] : ce \in InboundEncodings(b) } :
            m \in {"GET", "POST"}, u \in InboundUris, h \in InboundHosts,
            b \in InboundBodies }

UpstreamTexts ==
    { <<"https://", "storeapi.kobo.com", "/sync">>,
      <<"https://", "storeapi.kobo.com", "/sync",
        "https://", "storeapi.kobo.com">>,
      <<"https://", "/sync", "e-acute">> }

UpstreamBodies ==
    { BodyFrom(as_bytes(t)) : t \in UpstreamTexts }
    \cup { BodyFrom(compress_gzip(t)) : t \in UpstreamTexts }
    \cup { EmptyBody,
           BodyFrom(<<"FF">>),
           BodyFrom(<<GzipMagic, "FF", "1">>),
           BodyFrom(<<GzipMagic, "/sync">>),
           [readable |-> FALSE, bytes |-> <<"/sync">>] }

UpstreamResponses ==
    { [status |-> st,
       headers |-> [NoHeaders EXCEPT
                       !["transfer-encoding"] = te,
                       !["content-encoding"] = ce,
                       !["content-length"] =
                           IF cl THEN <<ContentLength(b.bytes)>> ELSE <<>>],
       body |-> b] :
        st \in {200, 404},
        te \in { <<>>, <<"gzip", "chunked">> },
        ce \in { <<>>, <<"gzip">>, <<"br, gzip">> },
        cl \in BOOLEAN,
        b \in UpstreamBodies }

\* Result<Response<Body>>: a response or a transport error.
TransportError == [ok |-> FALSE, error |-> "transport"]
ClientResults == { Ok(r) : r \in UpstreamResponses } \cup { TransportError }

FrontendUrls == { <<"http://", "localhost:8089">> }

NoRequest == [method |-> None]
NoResponse == [status |-> 0]
NoResult == [ok |-> FALSE, error |-> None]

(***************************************************************************)
(* Construction of the router: create_router(enable_request_logging,       *)
(* enable_response_logging, state).                                        *)
(***************************************************************************)
\* No request has arrived yet.
RouterIdle ==
    /\ hpc = "idle"
    /\ inbound = NoRequest
    /\ request = NoRequest
    /\ route = None
    /\ request_url = <<>>
    /\ recorded_requests = <<>>
    /\ clientCalls = 0
    /\ upstream = NoResult
    /\ response = NoResponse

HttpInit ==
    /\ enable_request_logging \in BOOLEAN
    /\ enable_response_logging \in BOOLEAN
    /\ frontend_url \in FrontendUrls
    /\ RouterIdle

(***************************************************************************)
(* The middleware chain and the handlers                                   *)
(***************************************************************************)

\* Where a handler's response goes: through log_responses when that layer is
\* installed, else to the caller.
AfterHandler == IF enable_response_logging THEN "log_responses" ELSE "done"

\* The handler a route leads to.
HandlerEntry(r) == IF r = "initialization" THEN "init_capture" ELSE "forward"

\* The router: GET on the initialization path goes to initialization_handler,
\* everything else to the fallback kobo_store_request.
Route(req) ==
    IF req.method = "GET" /\ PathOf(req.uri) = INIT_PATH
    THEN "initialization"
    ELSE "fallback"

\* Mutation: the Host header is left as the client sent it.
retarget_keepsHost(req) ==
    IF ~req.uri.path_and_query.some
    THEN Err(BAD_REQUEST)
    ELSE LET uri == generate_kobo_uri(req.uri.path_and_query.value)
         IN  IF ~uri.ok
             THEN Err(BAD_REQUEST)
             ELSE Ok([req EXCEPT !.uri = uri.value])

\* Mutation: a request without path-and-query is forwarded to "/".
retarget_defaultPath(req) ==
    LET pq == IF req.uri.path_and_query.some
              THEN req.uri.path_and_query.value
              ELSE [path |-> <<"/">>, query |-> None]
        uri == generate_kobo_uri(pq)
    IN  IF ~uri.ok
        THEN Err(BAD_REQUEST)
        ELSE Ok([req EXCEPT
                    !.uri = uri.value,
                    !.headers = insert(@, "host", KOBO_API_BASE_URI)])

\* Mutation: the upstream request is given headers of its own.
retarget_freshHeaders(req) ==
    IF ~req.uri.path_and_query.some
    THEN Err(BAD_REQUEST)
    ELSE LET uri == generate_kobo_uri(req.uri.path_and_query.value)
         IN  IF ~uri.ok
             THEN Err(BAD_REQUEST)
             ELSE Ok([req EXCEPT
                         !.uri = uri.value,
                         !.headers =
                             insert(NoHeaders, "host", KOBO_API_BASE_URI)])

\* Mutation: the Host value is appended to the values of the request.
retarget_appendsHost(req) ==
    IF ~req.uri.path_and_query.some
    THEN Err(BAD_REQUEST)
    ELSE LET uri == generate_kobo_uri(req.uri.path_and_query.value)
         IN  IF ~uri.ok
             THEN Err(BAD_REQUEST)
             ELSE Ok([req EXCEPT
                         !.uri = uri.value,
                         !.headers =
                             [@ EXCEPT !["host"] =
                                 Append(@, KOBO_API_BASE_URI)]])

\* kobo_store_request, up to the call of the client: the path-and-query is
\* extracted, the URI retargeted and the Host header replaced.
retarget(req) ==
    IF ~req.uri.path_and_query.some
    THEN Err(BAD_REQUEST)
    ELSE LET uri == generate_kobo_uri(req.uri.path_and_query.value)
         IN  IF ~uri.ok
             THEN Err(BAD_REQUEST)
             ELSE Ok([req EXCEPT
                         !.uri = uri.value,
                         !.headers = insert(@, "host", KOBO_API_BASE_URI)])

\* Mutation: the upstream response is returned with its headers untouched.
sanitize_keepsTransferEncoding(res) ==
    IF res.ok THEN Ok(res.value) ELSE Err(BAD_GATEWAY)

\* kobo_store_request, the match on the client's result: transfer-encoding is
\* removed from a response, an error becomes 502.
sanitize(res) ==
    IF res.ok
    THEN Ok([res.value EXCEPT !.headers = remove(@, "transfer-encoding")])
    ELSE Err(BAD_GATEWAY)

\* Mutation: the rewritten body is never compressed.
rewrite_plain(resp, url) ==
    LET bytes == buffer_body(resp.body)
        is_gzipped == is_gzip_encoded(resp.headers)
    IN  IF ~bytes.ok THEN Err(bytes.status)
        ELSE LET body_text == decode_response_body(bytes.value, is_gzipped)
             IN  IF ~body_text.ok THEN Err(body_text.status)
                 ELSE LET modified_text ==
                              replace(body_text.value, KOBO_API_URL, url)
                          final_body ==
                              encode_response_body(modified_text, FALSE)
                      IN  IF ~final_body.ok THEN Err(final_body.status)
                          ELSE Ok([resp EXCEPT !.body = final_body.value])

\* Mutation: a body that cannot be decoded is passed on as it arrived.
rewrite_passesUndecodable(resp, url) ==
    LET bytes == buffer_body(resp.body)
        is_gzipped == is_gzip_encoded(resp.headers)
    IN  IF ~bytes.ok THEN Err(bytes.status)
        ELSE LET body_text == decode_response_body(bytes.value, is_gzipped)
             IN  IF ~body_text.ok THEN Ok(resp)
                 ELSE LET modified_text ==
                              replace(body_text.value, KOBO_API_URL, url)
                          final_body ==
                              encode_response_body(modified_text, is_gzipped)
                      IN  IF ~final_body.ok THEN Err(final_body.status)
                          ELSE Ok([resp EXCEPT !.body = final_body.value])

\* initialization_handler after the forward: the body is read, decoded,
\* every KOBO_API_URL replaced by url, and encoded as it arrived.
rewrite(resp, url) ==
    LET bytes == buffer_body(resp.body)
        is_gzipped == is_gzip_encoded(resp.headers)
    IN  IF ~bytes.ok THEN Err(bytes.status)
        ELSE LET body_text == decode_response_body(bytes.value, is_gzipped)
             IN  IF ~body_text.ok THEN Err(body_text.status)
                 ELSE LET modified_text ==
                              replace(body_text.value, KOBO_API_URL, url)
                          final_body ==
                              encode_response_body(modified_text, is_gzipped)
                      IN  IF ~final_body.ok THEN Err(final_body.status)
                          ELSE Ok([resp EXCEPT !.body = final_body.value])

\* A request arrives at the service.
Arrive(req) ==
    /\ hpc = "idle"
    /\ inbound' = req
    /\ request' = req
    /\ hpc' = "normalize"
    /\ UNCHANGED <<enable_request_logging, enable_response_logging,
                   frontend_url, route, request_url, recorded_requests,
                   clientCalls, upstream, response>>
    /\ UNCHANGED <<appVars, utilVars>>

\* NormalizePathLayer::trim_trailing_slash
NormalizePathLayer ==
    /\ hpc = "normalize"
    /\ request' = [request EXCEPT !.uri = NormalizePath(@)]
    /\ hpc' = "route"
    /\ UNCHANGED <<enable_request_logging, enable_response_logging,
                   frontend_url, inbound, route, request_url,
                   recorded_requests, clientCalls, upstream, response>>
    /\ UNCHANGED <<appVars, utilVars>>

\* The router picks the handler.
Dispatch ==
    /\ hpc = "route"
    /\ route' = Route(request)
    /\ hpc' = IF enable_request_logging
              THEN "log_requests"
              ELSE HandlerEntry(Route(request))
    /\ UNCHANGED <<enable_request_logging, enable_response_logging,
                   frontend_url, inbound, request, request_url,
                   recorded_requests, clientCalls, upstream, response>>
    /\ UNCHANGED <<appVars, utilVars>>

\* Mutation: the buffered request body is not put back.
LogRequests_consumesBody ==
    /\ hpc = "log_requests"
    /\ LET bytes == buffer_body(request.body)
       IN  IF bytes.ok
           THEN /\ request' = [request EXCEPT !.body = EmptyBody]
                /\ hpc' = HandlerEntry(route)
                /\ UNCHANGED response
           ELSE /\ response' = MessageResponse(bytes.status, bytes.message)
                /\ hpc' = "done"
                /\ UNCHANGED request
    /\ UNCHANGED <<enable_request_logging, enable_response_logging,
                   frontend_url, inbound, route, request_url,
                   recorded_requests, clientCalls, upstream>>
    /\ UNCHANGED <<appVars, utilVars>>

\* log_requests: the body is buffered, logged and put back; a body that cannot
\* be read is answered with the status and the message.
LogRequests ==
    /\ hpc = "log_requests"
    /\ LET bytes == buffer_body(request.body)
       IN  IF bytes.ok
           THEN /\ request' = [request EXCEPT !.body = BodyFrom(bytes.value)]
                /\ hpc' = HandlerEntry(route)
                /\ UNCHANGED response
           ELSE /\ response' = MessageResponse(bytes.status, bytes.message)
                /\ hpc' = "done"
                /\ UNCHANGED request
    /\ UNCHANGED <<enable_request_logging, enable_response_logging,
                   frontend_url, inbound, route, request_url,
                   recorded_requests, clientCalls, upstream>>
    /\ UNCHANGED <<appVars, utilVars>>

\* Mutation: request_url is the configured frontend_url.
InitCapture_frontendUrl ==
    /\ hpc = "init_capture"
    /\ IF request.uri.scheme # None /\ request.uri.authority # None
       THEN /\ request_url' = frontend_url
            /\ hpc' = "forward"
            /\ UNCHANGED response
       ELSE /\ response' = StatusResponse(INTERNAL_SERVER_ERROR)
            /\ hpc' = AfterHandler
            /\ UNCHANGED request_url
    /\ UNCHANGED <<enable_request_logging, enable_response_logging,
                   frontend_url, inbound, request, route, recorded_requests,
                   clientCalls, upstream>>
    /\ UNCHANGED <<appVars, utilVars>>

\* Mutation: a request without scheme or authority is forwarded all the
\* same, the capture being left for later.
InitCapture_forwardsFirst ==
    /\ hpc = "init_capture"
    /\ request_url' =
           IF request.uri.scheme # None /\ request.uri.authority # None
           THEN SchemeAuthority(request.uri.scheme, request.uri.authority)
           ELSE request_url
    /\ hpc' = "forward"
    /\ UNCHANGED <<enable_request_logging, enable_response_logging,
                   frontend_url, inbound, request, route, recorded_requests,
                   clientCalls, upstream, response>>
    /\ UNCHANGED <<appVars, utilVars>>

\* initialization_handler: request_url from the scheme and the authority of
\* the request URI, or 500.
InitCapture ==
    /\ hpc = "init_capture"
    /\ IF request.uri.scheme # None /\ request.uri.authority # None
       THEN /\ request_url' =
                  SchemeAuthority(request.uri.scheme, request.uri.authority)
            /\ hpc' = "forward"
            /\ UNCHANGED response
       ELSE /\ response' = StatusResponse(INTERNAL_SERVER_ERROR)
            /\ hpc' = AfterHandler
            /\ UNCHANGED request_url
    /\ UNCHANGED <<enable_request_logging, enable_response_logging,
                   frontend_url, inbound, request, route, recorded_requests,
                   clientCalls, upstream>>
    /\ UNCHANGED <<appVars, utilVars>>

\* kobo_store_request: retarget the request or answer 400.
Forward ==
    /\ hpc = "forward"
    /\ LET r == retarget(request)
       IN  IF r.ok
           THEN /\ request' = r.value
                /\ hpc' = "client"
                /\ UNCHANGED response
           ELSE /\ response' = StatusResponse(r.status)
                /\ hpc' = AfterHandler
                /\ UNCHANGED request
    /\ UNCHANGED <<enable_request_logging, enable_response_logging,
                   frontend_url, inbound, route, request_url,
                   recorded_requests, clientCalls, upstream>>
    /\ UNCHANGED <<appVars, utilVars>>

\* KoboClient::request: the client collects the body, notes the request and
\* answers with a response or a transport error.
ClientRequest ==
    /\ hpc = "client"
    /\ clientCalls' = clientCalls + 1
    /\ IF request.body.readable
       THEN /\ recorded_requests' =
                  Append(recorded_requests,
                         [method |-> request.method, uri |-> request.uri,
                          headers |-> request.headers,
                          body |-> request.body.bytes])
            /\ \E res \in ClientResults : upstream' = res
       ELSE /\ upstream' = TransportError
            /\ UNCHANGED recorded_requests
    /\ request' = NoRequest
    /\ hpc' = "forward_result"
    /\ UNCHANGED <<enable_request_logging, enable_response_logging,
                   frontend_url, inbound, route, request_url, response>>
    /\ UNCHANGED <<appVars, utilVars>>

\* Mutation: a transport error is retried once.
ForwardResult_retries ==
    /\ hpc = "forward_result"
    /\ IF ~upstream.ok /\ clientCalls < 2
       THEN /\ hpc' = "client"
            /\ request' = [inbound EXCEPT !.body = BodyFrom(inbound.body.bytes)]
            /\ UNCHANGED response
       ELSE /\ response' = IF sanitize(upstream).ok
                           THEN sanitize(upstream).value
                           ELSE StatusResponse(sanitize(upstream).status)
            /\ hpc' = IF upstream.ok /\ route = "initialization"
                      THEN "init_rewrite" ELSE AfterHandler
            /\ UNCHANGED request
    /\ UNCHANGED <<enable_request_logging, enable_response_logging,
                   frontend_url, inbound, route, request_url,
                   recorded_requests, clientCalls, upstream>>
    /\ UNCHANGED <<appVars, utilVars>>

\* Mutation: on the initialization route the status of a failed forward is
\* handed to the rewrite like a response.
ForwardResult_rewritesErrors ==
    /\ hpc = "forward_result"
    /\ LET r == sanitize(upstream)
       IN  /\ response' = IF r.ok THEN r.value ELSE StatusResponse(r.status)
           /\ hpc' = IF route = "initialization"
                     THEN "init_rewrite" ELSE AfterHandler
    /\ UNCHANGED <<enable_request_logging, enable_response_logging,
                   frontend_url, inbound, request, route, request_url,
                   recorded_requests, clientCalls, upstream>>
    /\ UNCHANGED <<appVars, utilVars>>

\* kobo_store_request: the client's result becomes the handler's result; on
\* the initialization route an error leaves initialization_handler through
\* the `?`.
ForwardResult ==
    /\ hpc = "forward_result"
    /\ LET r == sanitize(upstream)
       IN  IF r.ok
           THEN /\ response' = r.value
                /\ hpc' = IF route = "initialization"
                          THEN "init_rewrite" ELSE AfterHandler
           ELSE /\ response' = StatusResponse(r.status)
                /\ hpc' = AfterHandler
    /\ UNCHANGED <<enable_request_logging, enable_response_logging,
                   frontend_url, inbound, request, route, request_url,
                   recorded_requests, clientCalls, upstream>>
    /\ UNCHANGED <<appVars, utilVars>>

\* initialization_handler: read, decode, replace, encode, or 500.
InitRewrite ==
    /\ hpc = "init_rewrite"
    /\ LET r == rewrite(response, request_url)
       IN  response' = IF r.ok THEN r.value ELSE StatusResponse(r.status)
    /\ hpc' = AfterHandler
    /\ UNCHANGED <<enable_request_logging, enable_response_logging,
                   frontend_url, inbound, request, route, request_url,
                   recorded_requests, clientCalls, upstream>>
    /\ UNCHANGED <<appVars, utilVars>>

\* log_responses: the body is buffered, logged and put back; a body that
\* cannot be read is answered with the status and the message.
LogResponses ==
    /\ hpc = "log_responses"
    /\ LET bytes == buffer_body(response.body)
       IN  response' = IF bytes.ok
                       THEN [response EXCEPT !.body = BodyFrom(bytes.value)]
                       ELSE MessageResponse(bytes.status, bytes.message)
    /\ hpc' = "done"
    /\ UNCHANGED <<enable_request_logging, enable_response_logging,
                   frontend_url, inbound, request, route, request_url,
                   recorded_requests, clientCalls, upstream>>
    /\ UNCHANGED <<appVars, utilVars>>

HttpNext ==
    \/ \E req \in InboundRequests : Arrive(req)
    \/ NormalizePathLayer
    \/ Dispatch
    \/ LogRequests
    \/ InitCapture
    \/ Forward
    \/ ClientRequest
    \/ ForwardResult
    \/ InitRewrite
    \/ LogResponses

----
(***************************************************************************)
(* The body codec called on its own (utils/http_body.rs)                   *)
(***************************************************************************)
MaxTextLen == 3
MaxBytesLen == 4

\* The characters of the texts and the bytes of the byte sequences.
TextAtoms == {"a", "e-acute", "U+FFFD"}
ByteAtoms == {"a", "C3", "A9", "FF", GzipMagic, "0", "1", "2"}

\* The sequences over S of length at most n.
RECURSIVE SeqsUpTo(_, _)
SeqsUpTo(S, n) ==
    IF n = 0 THEN { <<>> }
    ELSE LET shorter == SeqsUpTo(S, n - 1)
         IN  shorter \cup { Append(q, x) : q \in shorter, x \in S }

CodecTexts == SeqsUpTo(TextAtoms, MaxTextLen)
CodecBytes == SeqsUpTo(ByteAtoms, MaxBytesLen)

\* The values of content-encoding the header map may hold.
ContentEncodings ==
    { <<>>, <<"gzip">>, <<"deflate">>, <<"br, gzip">>, <<"GZIP">>,
      <<"gzip", "br">>, <<"br", "gzip">> }

NoCodecResult == [ok |-> FALSE, status |-> 0]

\* No codec call is under way.
CodecIdle ==
    /\ codec_text = <<>>
    /\ codec_compress = FALSE
    /\ codec_encoded = NoCodecResult
    /\ codec_bytes = <<>>
    /\ codec_gzipped = FALSE
    /\ codec_decoded = NoCodecResult
    /\ codec_headers = NoHeaders
    /\ codec_is_gzip = FALSE

CodecQuiet ==
    /\ codec_case = "none"
    /\ codec_pc = "done"
    /\ CodecIdle

\* A caller about to encode a text and decode the result, to decode bytes,
\* or to ask whether headers announce gzip.
CodecInit ==
    \/ /\ codec_case = "round_trip"
       /\ codec_pc = "encode"
       /\ codec_text \in CodecTexts
       /\ codec_compress \in BOOLEAN
       /\ codec_encoded = NoCodecResult
       /\ codec_bytes = <<>>
       /\ codec_gzipped = FALSE
       /\ codec_decoded = NoCodecResult
       /\ codec_headers = NoHeaders
       /\ codec_is_gzip = FALSE
    \/ /\ codec_case = "decode"
       /\ codec_pc = "decode"
       /\ codec_bytes \in CodecBytes
       /\ codec_gzipped \in BOOLEAN
       /\ codec_text = <<>>
       /\ codec_compress = FALSE
       /\ codec_encoded = NoCodecResult
       /\ codec_decoded = NoCodecResult
       /\ codec_headers = NoHeaders
       /\ codec_is_gzip = FALSE
    \/ /\ codec_case = "header"
       /\ codec_pc = "header"
       /\ codec_headers \in
              { [NoHeaders EXCEPT !["content-encoding"] = ce] :
                    ce \in ContentEncodings }
       /\ codec_text = <<>>
       /\ codec_compress = FALSE
       /\ codec_encoded = NoCodecResult
       /\ codec_bytes = <<>>
       /\ codec_gzipped = FALSE
       /\ codec_decoded = NoCodecResult
       /\ codec_is_gzip = FALSE

\* encode_response_body(text, should_compress); its bytes are then decoded
\* with the same flag.
EncodeResponseBody ==
    /\ codec_pc = "encode"
    /\ codec_encoded' = encode_response_body(codec_text, codec_compress)
    /\ codec_bytes' = IF codec_encoded'.ok
                      THEN codec_encoded'.value.bytes
                      ELSE <<>>
    /\ codec_gzipped' = codec_compress
    /\ codec_pc' = IF codec_encoded'.ok THEN "decode" ELSE "done"
    /\ UNCHANGED <<codec_case, codec_text, codec_compress, codec_decoded,
                   codec_headers, codec_is_gzip>>
    /\ UNCHANGED <<appVars, httpVars, fakeVars, serveVars>>

\* decode_response_body(bytes, is_gzipped)
DecodeResponseBody ==
    /\ codec_pc = "decode"
    /\ codec_decoded' = decode_response_body(codec_bytes, codec_gzipped)
    /\ codec_pc' = "done"
    /\ UNCHANGED <<codec_case, codec_text, codec_compress, codec_encoded,
                   codec_bytes, codec_gzipped, codec_headers, codec_is_gzip>>
    /\ UNCHANGED <<appVars, httpVars, fakeVars, serveVars>>

\* is_gzip_encoded(headers)
IsGzipEncoded ==
    /\ codec_pc = "header"
    /\ codec_is_gzip' = is_gzip_encoded(codec_headers)
    /\ codec_pc' = "done"
    /\ UNCHANGED <<codec_case, codec_text, codec_compress, codec_encoded,
                   codec_bytes, codec_gzipped, codec_decoded, codec_headers>>
    /\ UNCHANGED <<appVars, httpVars, fakeVars, serveVars>>

CodecNext ==
    \/ EncodeResponseBody
    \/ DecodeResponseBody
    \/ IsGzipEncoded

----
(***************************************************************************)
(* FakeKoboClient called on its own (state/fake_kobo_client.rs)            *)
(***************************************************************************)
MaxEnqueued == 2
MaxFakeCalls == 2

FakeClients == {"c1", "c2"}

\* The requests the callers pass to request().
FakeRequests ==
    { [method |-> "GET",
       uri |-> AbsoluteForm("https", KOBO_API_BASE_URI, <<"/", "some">>),
       headers |-> NoHeaders, body |-> EmptyBody],
      [method |-> "POST",
       uri |-> AbsoluteForm("https", KOBO_API_BASE_URI, <<"/", "path">>),
       headers |-> NoHeaders, body |-> BodyFrom(<<"t">>)],
      [method |-> "POST",
       uri |-> AbsoluteForm("https", KOBO_API_BASE_URI, <<"/", "path">>),
       headers |-> NoHeaders,
       body |-> [readable |-> FALSE, bytes |-> <<"t">>]] }

\* The responses and the errors the tests enqueue.
FakeResponses ==
    { [status |-> 200, headers |-> NoHeaders, body |-> EmptyBody] }
FakeErrors == { "boom" }

\* anyhow!("No stubbed response configured")
NoStubbedResponse == [ok |-> FALSE, error |-> "No stubbed response configured"]
\* The error of body.collect()
CollectError == [ok |-> FALSE, error |-> "collect"]

\* The other variables of the router, which the client does not touch.
httpRest == <<enable_request_logging, enable_response_logging, frontend_url,
              hpc, inbound, request, route, request_url, clientCalls,
              upstream, response>>

\* FakeKoboClient::new
FakeInit ==
    /\ responses = <<>>
    /\ enqueued = <<>>
    /\ returned = <<>>
    /\ fpc = [c \in FakeClients |-> "idle"]
    /\ fake_request = [c \in FakeClients |-> NoRequest]
    /\ overlap = FALSE
    /\ log_index = [c \in FakeClients |-> 0]

\* Whether some request() call is under way.
InRequest == \E c \in FakeClients : fpc[c] # "idle"

\* push_back of an item; every item is an object of its own, told apart by
\* the position it was enqueued at.
Enqueue(res) ==
    /\ Len(enqueued) < MaxEnqueued
    /\ LET item == [id |-> Len(enqueued) + 1, result |-> res]
       IN  /\ responses' = Append(responses, item)
           /\ enqueued' = Append(enqueued, item)
    /\ overlap' = (overlap \/ InRequest)
    /\ UNCHANGED <<returned, fpc, fake_request, recorded_requests, log_index>>
    /\ UNCHANGED <<appVars, httpRest, codecVars, serveVars>>

\* FakeKoboClient::enqueue_response
enqueue_response(resp) == Enqueue(Ok(resp))

\* FakeKoboClient::enqueue_error
enqueue_error(error) == Enqueue([ok |-> FALSE, error |-> error])

\* A caller calls request(request).
RequestCall(c, req) ==
    /\ fpc[c] = "idle"
    /\ Len(returned) + Cardinality({ d \in FakeClients : fpc[d] # "idle" })
           < MaxFakeCalls
    /\ fpc' = [fpc EXCEPT ![c] = "collect"]
    /\ fake_request' = [fake_request EXCEPT ![c] = req]
    /\ overlap' = (overlap \/ InRequest)
    /\ UNCHANGED <<responses, enqueued, returned, recorded_requests,
                   log_index>>
    /\ UNCHANGED <<appVars, httpRest, codecVars, serveVars>>

\* request: body.collect().await?
RequestCollect(c) ==
    /\ fpc[c] = "collect"
    /\ IF fake_request[c].body.readable
       THEN /\ fpc' = [fpc EXCEPT ![c] = "record"]
            /\ UNCHANGED <<returned, fake_request>>
       ELSE /\ returned' = Append(returned,
                                  [caller |-> c, result |-> CollectError,
                                   item |-> 0, logged |-> 0, position |-> 0,
                                   enqueued_before |-> Len(enqueued)])
            /\ fpc' = [fpc EXCEPT ![c] = "idle"]
            /\ fake_request' = [fake_request EXCEPT ![c] = NoRequest]
    /\ UNCHANGED <<responses, enqueued, overlap, recorded_requests,
                   log_index>>
    /\ UNCHANGED <<appVars, httpRest, codecVars, serveVars>>

\* Mutation: a request equal to one already in the log is not recorded again.
RequestRecord_skipsRepeated(c) ==
    /\ fpc[c] = "record"
    /\ LET recorded == [method |-> fake_request[c].method,
                        uri |-> fake_request[c].uri,
                        headers |-> fake_request[c].headers,
                        body |-> fake_request[c].body.bytes]
           known == \E i \in 1..Len(recorded_requests) :
                        recorded_requests[i] = recorded
       IN  /\ recorded_requests' =
                  IF known THEN recorded_requests
                  ELSE Append(recorded_requests, recorded)
           /\ log_index' = [log_index EXCEPT ![c] = Len(recorded_requests')]
    /\ fpc' = [fpc EXCEPT ![c] = "take"]
    /\ UNCHANGED <<responses, enqueued, returned, fake_request, overlap>>
    /\ UNCHANGED <<appVars, httpRest, codecVars, serveVars>>

\* Mutation: the RecordedRequest is put in front of the log.
RequestRecord_pushFront(c) ==
    /\ fpc[c] = "record"
    /\ recorded_requests' =
           <<[method |-> fake_request[c].method,
              uri |-> fake_request[c].uri,
              headers |-> fake_request[c].headers,
              body |-> fake_request[c].body.bytes]>> \o recorded_requests
    /\ log_index' = [log_index EXCEPT ![c] = 1]
    /\ fpc' = [fpc EXCEPT ![c] = "take"]
    /\ UNCHANGED <<responses, enqueued, returned, fake_request, overlap>>
    /\ UNCHANGED <<appVars, httpRest, codecVars, serveVars>>

\* request: the RecordedRequest is pushed under the lock of the log.
RequestRecord(c) ==
    /\ fpc[c] = "record"
    /\ recorded_requests' =
           Append(recorded_requests,
                  [method |-> fake_request[c].method,
                   uri |-> fake_request[c].uri,
                   headers |-> fake_request[c].headers,
                   body |-> fake_request[c].body.bytes])
    /\ log_index' = [log_index EXCEPT ![c] = Len(recorded_requests) + 1]
    /\ fpc' = [fpc EXCEPT ![c] = "take"]
    /\ UNCHANGED <<responses, enqueued, returned, fake_request, overlap>>
    /\ UNCHANGED <<appVars, httpRest, codecVars, serveVars>>

\* Mutation: the newest item is taken.
RequestTake_popBack(c) ==
    /\ fpc[c] = "take"
    /\ IF responses = <<>>
       THEN /\ returned' = Append(returned,
                                  [caller |-> c, result |-> NoStubbedResponse,
                                   item |-> 0,
                                   logged |-> Len(recorded_requests),
                                   position |-> log_index[c],
                                   enqueued_before |-> Len(enqueued)])
            /\ UNCHANGED responses
       ELSE /\ returned' = Append(returned,
                                  [caller |-> c,
                                   result |-> responses[Len(responses)].result,
                                   item |-> responses[Len(responses)].id,
                                   logged |-> Len(recorded_requests),
                                   position |-> log_index[c],
                                   enqueued_before |-> Len(enqueued)])
            /\ responses' = SubSeq(responses, 1, Len(responses) - 1)
    /\ fpc' = [fpc EXCEPT ![c] = "idle"]
    /\ fake_request' = [fake_request EXCEPT ![c] = NoRequest]
    /\ log_index' = [log_index EXCEPT ![c] = 0]
    /\ UNCHANGED <<enqueued, overlap, recorded_requests>>
    /\ UNCHANGED <<appVars, httpRest, codecVars, serveVars>>

\* request: pop_front under the lock of the queue, or the error.
RequestTake(c) ==
    /\ fpc[c] = "take"
    /\ IF responses = <<>>
       THEN /\ returned' = Append(returned,
                                  [caller |-> c, result |-> NoStubbedResponse,
                                   item |-> 0,
                                   logged |-> Len(recorded_requests),
                                   position |-> log_index[c],
                                   enqueued_before |-> Len(enqueued)])
            /\ UNCHANGED responses
       ELSE /\ returned' = Append(returned,
                                  [caller |-> c,
                                   result |-> Head(responses).result,
                                   item |-> Head(responses).id,
                                   logged |-> Len(recorded_requests),
                                   position |-> log_index[c],
                                   enqueued_before |-> Len(enqueued)])
            /\ responses' = Tail(responses)
    /\ fpc' = [fpc EXCEPT ![c] = "idle"]
    /\ fake_request' = [fake_request EXCEPT ![c] = NoRequest]
    /\ log_index' = [log_index EXCEPT ![c] = 0]
    /\ UNCHANGED <<enqueued, overlap, recorded_requests>>
    /\ UNCHANGED <<appVars, httpRest, codecVars, serveVars>>

FakeNext ==
    \/ \E resp \in FakeResponses : enqueue_response(resp)
    \/ \E error \in FakeErrors : enqueue_error(error)
    \/ \E c \in FakeClients, req \in FakeRequests : RequestCall(c, req)
    \/ \E c \in FakeClients : RequestCollect(c)
    \/ \E c \in FakeClients : RequestRecord(c)
    \/ \E c \in FakeClients : RequestTake(c)

\* An App that is never started, with its router at rest.
AppQuiet ==
    /\ AppInit
    /\ listener_builder = "fake"
    /\ port = DefaultPort
    /\ taskOutcome = "Ok"

HttpQuiet ==
    /\ HttpInit
    /\ ~enable_request_logging
    /\ ~enable_response_logging

CodecSpecInit == AppQuiet /\ HttpQuiet /\ FakeInit /\ CodecInit

CodecSpec == CodecSpecInit /\ [][CodecNext]_vars

FakeSpecInit == AppQuiet /\ HttpQuiet /\ CodecQuiet /\ FakeInit

FakeSpec == FakeSpecInit /\ [][FakeNext]_vars

----
\* One router with one App that is never started.
HttpSpecInit ==
    /\ HttpInit
    /\ AppInit
    /\ listener_builder = "fake"
    /\ port = DefaultPort
    /\ taskOutcome = "Ok"
    /\ CodecQuiet
    /\ FakeInit

HttpSpec == HttpSpecInit /\ [][HttpNext]_vars

\* CommandLineArguments.frontend_url: the option is omitted, supplied, or
\* supplied with an empty value.
FrontendUrlArguments ==
    { NoneOpt, Some(<<"https://", "kobo.example.test">>), Some(<<>>) }

\* App::new: command_line_arguments.frontend_url, or else
\* format!("http://localhost:{}", command_line_arguments.port)
frontend_url_or_default(argument, p) ==
    IF argument.some
    THEN argument.value
    ELSE <<"http://", "localhost:" \o ToString(p)>>

\* The production App as App::new and ServerState::builder(..).build()
\* construct it from the command line, and the router with its requests.
ConfigInit ==
    /\ AppInit
    /\ listener_builder = "tcp"
    /\ bindOk
    /\ taskOutcome = "Ok"
    /\ \E argument \in FrontendUrlArguments :
           frontend_url = frontend_url_or_default(argument, port)
    /\ enable_request_logging \in BOOLEAN
    /\ enable_response_logging \in BOOLEAN
    /\ RouterIdle
    /\ CodecQuiet
    /\ FakeInit

\* The requests of a device that names no host of its own.
ConfigRequests ==
    { req \in InboundRequests :
        /\ req.method = "GET"
        /\ req.headers["host"] = <<>>
        /\ req.headers["content-encoding"] = <<>> }

ConfigNext ==
    \/ \E req \in ConfigRequests : Arrive(req)
    \/ NormalizePathLayer
    \/ Dispatch
    \/ LogRequests
    \/ InitCapture
    \/ Forward
    \/ ClientRequest
    \/ ForwardResult
    \/ InitRewrite
    \/ LogResponses

ConfigSpec == ConfigInit /\ [][ConfigNext]_vars

\* One App whose router serves no request.
Init ==
    /\ AppInit
    /\ HttpInit
    /\ ~enable_request_logging
    /\ ~enable_response_logging
    /\ CodecQuiet
    /\ FakeInit

----
(***************************************************************************)
(* App::run and App::start_server                                          *)
(***************************************************************************)

\* A caller enters run(); start_server begins.
RunCall(p) ==
    /\ p \in RunProcs
    /\ pc[p] = "idle"
    /\ calls' = [calls EXCEPT ![p] = @ + 1]
    /\ pc' = [pc EXCEPT ![p] = "start_lock_builder"]
    /\ result' = [result EXCEPT ![p] = None]
    /\ signal' = [signal EXCEPT ![p] = None]
    /\ UNCHANGED <<listener_builder, port, bindOk, taskOutcome,
                   cancellation_token, builder_token, server_started,
                   server_builder, server, serverMutex, builderMutex, task,
                   handle, local, lastAddress, serverShutdowns, taker>>
    /\ UNCHANGED <<httpVars, utilVars>>

\* start_server: self.server_builder.lock()
StartLockBuilder(p) ==
    /\ pc[p] = "start_lock_builder"
    /\ builderMutex = None
    /\ builderMutex' = p
    /\ pc' = [pc EXCEPT ![p] = "start_take_builder"]
    /\ UNCHANGED <<listener_builder, port, bindOk, taskOutcome,
                   cancellation_token, builder_token, server_started,
                   server_builder, server, serverMutex, task, handle, local,
                   result, calls, signal, lastAddress, serverShutdowns,
                   taker>>
    /\ UNCHANGED <<httpVars, utilVars>>

\* Mutation: the builder is left in its slot for the next start.
StartTakeBuilder_leavesBuilder(p) ==
    /\ pc[p] = "start_take_builder"
    /\ builderMutex = p
    /\ builderMutex' = None
    /\ IF server_builder = None
       THEN /\ pc' = [pc EXCEPT ![p] = "done"]
            /\ result' = [result EXCEPT ![p] = "Err: Server builder is not set"]
       ELSE /\ pc' = [pc EXCEPT ![p] = "build_listener"]
            /\ UNCHANGED result
    /\ UNCHANGED <<listener_builder, port, bindOk, taskOutcome,
                   cancellation_token, builder_token, server_started, server,
                   server_builder, serverMutex, task, handle, local, calls,
                   signal, lastAddress, serverShutdowns, taker>>
    /\ UNCHANGED <<httpVars, utilVars>>

\* Mutation: the guard of the builder slot lives on into the build.
StartTakeBuilder_holdsGuard(p) ==
    /\ pc[p] = "start_take_builder"
    /\ builderMutex = p
    /\ server_builder' = None
    /\ IF server_builder = None
       THEN /\ pc' = [pc EXCEPT ![p] = "done"]
            /\ result' = [result EXCEPT ![p] = "Err: Server builder is not set"]
            /\ builderMutex' = None
       ELSE /\ pc' = [pc EXCEPT ![p] = "build_listener"]
            /\ UNCHANGED <<result, builderMutex>>
    /\ UNCHANGED <<listener_builder, port, bindOk, taskOutcome,
                   cancellation_token, builder_token, server_started, server,
                   serverMutex, task, handle, local, calls, signal,
                   lastAddress, serverShutdowns, taker>>
    /\ UNCHANGED <<httpVars, utilVars>>

\* start_server: .take() on the builder slot, the guard is dropped at the end
\* of the statement; an empty slot makes run() return the error.
StartTakeBuilder(p) ==
    /\ pc[p] = "start_take_builder"
    /\ builderMutex = p
    /\ builderMutex' = None
    /\ server_builder' = None
    /\ IF server_builder = None
       THEN /\ pc' = [pc EXCEPT ![p] = "done"]
            /\ result' = [result EXCEPT ![p] = "Err: Server builder is not set"]
       ELSE /\ pc' = [pc EXCEPT ![p] = "build_listener"]
            /\ UNCHANGED result
    /\ UNCHANGED <<listener_builder, port, bindOk, taskOutcome,
                   cancellation_token, builder_token, server_started, server,
                   serverMutex, task, handle, local, calls, signal,
                   lastAddress, serverShutdowns, taker>>
    /\ UNCHANGED <<httpVars, utilVars>>

\* Mutation: the build goes on after a failed bind.
BuildIntoListener_ignoresError(p) ==
    /\ pc[p] = "build_listener"
    /\ pc' = [pc EXCEPT ![p] = "build_spawn"]
    /\ UNCHANGED <<listener_builder, port, bindOk, taskOutcome,
                   cancellation_token, builder_token, server_started,
                   server_builder, server, serverMutex, builderMutex, task,
                   handle, local, result, calls, signal, lastAddress,
                   serverShutdowns, taker>>
    /\ UNCHANGED <<httpVars, utilVars>>

\* ServerBuilder::build: into_listener(port).await?
BuildIntoListener(p) ==
    /\ pc[p] = "build_listener"
    /\ IF into_listener(listener_builder, bindOk)
       THEN /\ pc' = [pc EXCEPT ![p] = "build_spawn"]
            /\ UNCHANGED result
       ELSE /\ pc' = [pc EXCEPT ![p] = "done"]
            /\ result' = [result EXCEPT ![p] = "Err: bind"]
    /\ UNCHANGED <<listener_builder, port, bindOk, taskOutcome,
                   cancellation_token, builder_token, server_started,
                   server_builder, server, serverMutex, builderMutex, task,
                   handle, local, calls, signal, lastAddress, serverShutdowns,
                   taker>>
    /\ UNCHANGED <<httpVars, utilVars>>

\* Mutation: the readiness signal is raised when the task is spawned, before
\* the server is stored in the slot.
BuildSpawn_signalsEarly(p) ==
    /\ pc[p] = "build_spawn"
    /\ task' = "serving"
    /\ server_started' = TRUE
    /\ local' = [local EXCEPT ![p] =
                    Some([address |-> local_addr(listener_builder, port)])]
    /\ pc' = [pc EXCEPT ![p] = "start_lock_server"]
    /\ UNCHANGED <<listener_builder, port, bindOk, taskOutcome,
                   cancellation_token, builder_token, server_builder, server,
                   serverMutex, builderMutex, handle, result, calls, signal,
                   lastAddress, serverShutdowns, taker>>
    /\ UNCHANGED <<httpVars, utilVars>>

\* ServerBuilder::build: local_addr, tokio::spawn of the serving task and the
\* Server value handed back to start_server.
BuildSpawn(p) ==
    /\ pc[p] = "build_spawn"
    /\ task' = "serving"
    /\ local' = [local EXCEPT ![p] =
                    Some([address |-> local_addr(listener_builder, port)])]
    /\ pc' = [pc EXCEPT ![p] = "start_lock_server"]
    /\ UNCHANGED <<listener_builder, port, bindOk, taskOutcome,
                   cancellation_token, builder_token, server_started,
                   server_builder, server, serverMutex, builderMutex, handle,
                   result, calls, signal, lastAddress, serverShutdowns,
                   taker>>
    /\ UNCHANGED <<httpVars, utilVars>>

\* start_server: self.server.lock()
StartLockServer(p) ==
    /\ pc[p] = "start_lock_server"
    /\ serverMutex = None
    /\ serverMutex' = p
    /\ pc' = [pc EXCEPT ![p] = "start_store"]
    /\ UNCHANGED <<listener_builder, port, bindOk, taskOutcome,
                   cancellation_token, builder_token, server_started,
                   server_builder, server, builderMutex, task, handle, local,
                   result, calls, signal, lastAddress, serverShutdowns,
                   taker>>
    /\ UNCHANGED <<httpVars, utilVars>>

\* Mutation: the built server is dropped instead of stored in the slot.
StartStore_dropsServer(p) ==
    /\ pc[p] = "start_store"
    /\ serverMutex = p
    /\ local' = [local EXCEPT ![p] = NoneOpt]
    /\ serverMutex' = None
    /\ pc' = [pc EXCEPT ![p] = "start_signal"]
    /\ UNCHANGED <<listener_builder, port, bindOk, taskOutcome,
                   cancellation_token, builder_token, server_started,
                   server_builder, server, builderMutex, task, handle, result,
                   calls, signal, lastAddress, serverShutdowns, taker>>
    /\ UNCHANGED <<httpVars, utilVars>>

\* start_server: *guard = Some(server)
StartStore(p) ==
    /\ pc[p] = "start_store"
    /\ serverMutex = p
    /\ server' = local[p]
    /\ local' = [local EXCEPT ![p] = NoneOpt]
    /\ serverMutex' = None
    /\ pc' = [pc EXCEPT ![p] = "start_signal"]
    /\ UNCHANGED <<listener_builder, port, bindOk, taskOutcome,
                   cancellation_token, builder_token, server_started,
                   server_builder, builderMutex, task, handle, result, calls,
                   signal, lastAddress, serverShutdowns, taker>>
    /\ UNCHANGED <<httpVars, utilVars>>

\* start_server: self.server_started.cancel()
StartSignalStarted(p) ==
    /\ pc[p] = "start_signal"
    /\ server_started' = TRUE
    /\ pc' = [pc EXCEPT ![p] = "wait_signal"]
    /\ UNCHANGED <<listener_builder, port, bindOk, taskOutcome,
                   cancellation_token, builder_token, server_builder, server,
                   serverMutex, builderMutex, task, handle, local, result,
                   calls, signal, lastAddress, serverShutdowns, taker>>
    /\ UNCHANGED <<httpVars, utilVars>>

\* Mutation: run() waits on the token handed to the server builder instead of
\* the App's own token.
shutdown_signalled_builderToken == builder_token

\* wait_for_shutdown_signal: self.cancellation_token.cancelled() is ready.
shutdown_signalled == cancellation_token

\* One branch of the select in wait_for_shutdown_signal: ctrl_c() resolved
\* (Ok or Err) or the cancellation token was cancelled.
WaitBranch(p, why) ==
    /\ pc[p] = "wait_signal"
    /\ (why = "cancelled" => shutdown_signalled)
    /\ signal' = [signal EXCEPT ![p] = why]
    /\ pc' = [pc EXCEPT ![p] = "sd_cancel"]
    /\ UNCHANGED <<listener_builder, port, bindOk, taskOutcome,
                   cancellation_token, builder_token, server_started,
                   server_builder, server, serverMutex, builderMutex, task,
                   handle, local, result, calls, lastAddress, serverShutdowns,
                   taker>>
    /\ UNCHANGED <<httpVars, utilVars>>

\* App::wait_for_shutdown_signal: the select over ctrl_c() and the
\* cancellation token; every branch returns and run() goes on to shutdown().
WaitForShutdownSignal(p) ==
    \E why \in {"ctrl_c", "ctrl_c_error", "cancelled"} : WaitBranch(p, why)

----
(***************************************************************************)
(* App::shutdown and Server::shutdown                                      *)
(***************************************************************************)

\* A caller enters shutdown().
ShutdownCall(p) ==
    /\ p \in ShutProcs
    /\ pc[p] \in {"idle", "done"}
    /\ calls[p] < MaxShutdownCalls
    /\ calls' = [calls EXCEPT ![p] = @ + 1]
    /\ pc' = [pc EXCEPT ![p] = "sd_cancel"]
    /\ result' = [result EXCEPT ![p] = None]
    /\ UNCHANGED <<listener_builder, port, bindOk, taskOutcome,
                   cancellation_token, builder_token, server_started,
                   server_builder, server, serverMutex, builderMutex, task,
                   handle, local, signal, lastAddress, serverShutdowns,
                   taker>>
    /\ UNCHANGED <<httpVars, utilVars>>

\* shutdown: self.cancellation_token.cancel()
ShutdownCancel(p) ==
    /\ pc[p] = "sd_cancel"
    /\ cancellation_token' = TRUE
    /\ pc' = [pc EXCEPT ![p] = "sd_lock"]
    /\ UNCHANGED <<listener_builder, port, bindOk, taskOutcome, builder_token,
                   server_started, server_builder, server, serverMutex,
                   builderMutex, task, handle, local, result, calls, signal,
                   lastAddress, serverShutdowns, taker>>
    /\ UNCHANGED <<httpVars, utilVars>>

\* shutdown: self.server.lock()
ShutdownLock(p) ==
    /\ pc[p] = "sd_lock"
    /\ serverMutex = None
    /\ serverMutex' = p
    /\ pc' = [pc EXCEPT ![p] = "sd_take"]
    /\ UNCHANGED <<listener_builder, port, bindOk, taskOutcome,
                   cancellation_token, builder_token, server_started,
                   server_builder, server, builderMutex, task, handle, local,
                   result, calls, signal, lastAddress, serverShutdowns,
                   taker>>
    /\ UNCHANGED <<httpVars, utilVars>>

\* Mutation: a call that finds the slot empty after the take awaits the
\* task as well.
ShutdownTake_everyCallJoins(p) ==
    /\ pc[p] = "sd_take"
    /\ serverMutex = p
    /\ serverMutex' = None
    /\ server' = NoneOpt
    /\ local' = [local EXCEPT ![p] = server]
    /\ taker' = IF server.some THEN p ELSE taker
    /\ IF ~server.some /\ taker = None
       THEN /\ pc' = [pc EXCEPT ![p] = "done"]
            /\ result' = [result EXCEPT ![p] = "Ok"]
       ELSE /\ pc' = [pc EXCEPT ![p] =
                         IF server.some THEN "srv_cancel" ELSE "srv_join"]
            /\ UNCHANGED result
    /\ UNCHANGED <<listener_builder, port, bindOk, taskOutcome,
                   cancellation_token, builder_token, server_started,
                   server_builder, builderMutex, task, handle, calls, signal,
                   lastAddress, serverShutdowns>>
    /\ UNCHANGED <<httpVars, utilVars>>

\* Mutation: shutdown() reads the server slot without emptying it.
ShutdownTake_peek(p) ==
    /\ pc[p] = "sd_take"
    /\ serverMutex = p
    /\ serverMutex' = None
    /\ server' = server
    /\ local' = [local EXCEPT ![p] = server]
    /\ taker' = IF server.some THEN p ELSE taker
    /\ IF ~server.some
       THEN /\ pc' = [pc EXCEPT ![p] = "done"]
            /\ result' = [result EXCEPT ![p] = "Ok"]
       ELSE /\ pc' = [pc EXCEPT ![p] = "srv_cancel"]
            /\ UNCHANGED result
    /\ UNCHANGED <<listener_builder, port, bindOk, taskOutcome,
                   cancellation_token, builder_token, server_started,
                   server_builder, builderMutex, task, handle, calls, signal,
                   lastAddress, serverShutdowns>>
    /\ UNCHANGED <<httpVars, utilVars>>

\* shutdown: .take() on the server slot, the guard is dropped at the end of
\* the statement; with an empty slot the call returns Ok(()) at once.
ShutdownTake(p) ==
    /\ pc[p] = "sd_take"
    /\ serverMutex = p
    /\ serverMutex' = None
    /\ server' = NoneOpt
    /\ local' = [local EXCEPT ![p] = server]
    /\ taker' = IF server.some THEN p ELSE taker
    /\ IF ~server.some
       THEN /\ pc' = [pc EXCEPT ![p] = "done"]
            /\ result' = [result EXCEPT ![p] = "Ok"]
       ELSE /\ pc' = [pc EXCEPT ![p] = "srv_cancel"]
            /\ UNCHANGED result
    /\ UNCHANGED <<listener_builder, port, bindOk, taskOutcome,
                   cancellation_token, builder_token, server_started,
                   server_builder, builderMutex, task, handle, calls, signal,
                   lastAddress, serverShutdowns>>
    /\ UNCHANGED <<httpVars, utilVars>>

\* Mutation: Server::shutdown awaits the handle without cancelling the token.
ServerShutdownCancel_noCancel(p) ==
    /\ pc[p] = "srv_cancel"
    /\ serverShutdowns' = serverShutdowns + 1
    /\ pc' = [pc EXCEPT ![p] = "srv_join"]
    /\ UNCHANGED <<listener_builder, port, bindOk, taskOutcome,
                   cancellation_token, builder_token, server_started,
                   server_builder, server, serverMutex, builderMutex, task,
                   handle, local, result, calls, signal, lastAddress, taker>>
    /\ UNCHANGED <<httpVars, utilVars>>

\* Server::shutdown: self.cancellation_token.cancel()
ServerShutdownCancel(p) ==
    /\ pc[p] = "srv_cancel"
    /\ builder_token' = TRUE
    /\ serverShutdowns' = serverShutdowns + 1
    /\ pc' = [pc EXCEPT ![p] = "srv_join"]
    /\ UNCHANGED <<listener_builder, port, bindOk, taskOutcome,
                   cancellation_token, server_started, server_builder, server,
                   serverMutex, builderMutex, task, handle, local, result,
                   calls, signal, lastAddress, taker>>
    /\ UNCHANGED <<httpVars, utilVars>>

\* Mutation: the result of the task is discarded.
ServerShutdownJoin_swallows(p) ==
    /\ pc[p] = "srv_join"
    /\ task = "finished"
    /\ result' = [result EXCEPT ![p] = "Ok"]
    /\ local' = [local EXCEPT ![p] = NoneOpt]
    /\ pc' = [pc EXCEPT ![p] = "done"]
    /\ UNCHANGED <<listener_builder, port, bindOk, taskOutcome,
                   cancellation_token, builder_token, server_started,
                   server_builder, server, serverMutex, builderMutex, task,
                   handle, calls, signal, lastAddress, serverShutdowns,
                   taker>>
    /\ UNCHANGED <<httpVars, utilVars>>

\* Server::shutdown: self.handle.await? ; the task's result is what
\* shutdown(), and run() through its `?`, return.
ServerShutdownJoin(p) ==
    /\ pc[p] = "srv_join"
    /\ task = "finished"
    /\ result' = [result EXCEPT ![p] = handle]
    /\ local' = [local EXCEPT ![p] = NoneOpt]
    /\ pc' = [pc EXCEPT ![p] = "done"]
    /\ UNCHANGED <<listener_builder, port, bindOk, taskOutcome,
                   cancellation_token, builder_token, server_started,
                   server_builder, server, serverMutex, builderMutex, task,
                   handle, calls, signal, lastAddress, serverShutdowns,
                   taker>>
    /\ UNCHANGED <<httpVars, utilVars>>

----
(***************************************************************************)
(* The serving task spawned by ServerBuilder::build                        *)
(***************************************************************************)

\* with_graceful_shutdown: cancellation_token_clone.cancelled() resolves, the
\* accept loop stops accepting and the task drains.
TaskObserveCancel ==
    /\ task = "serving"
    /\ builder_token
    /\ task' = "draining"
    /\ UNCHANGED <<listener_builder, port, bindOk, taskOutcome,
                   cancellation_token, builder_token, server_started,
                   server_builder, server, serverMutex, builderMutex, handle,
                   pc, local, result, calls, signal, lastAddress,
                   serverShutdowns, taker>>
    /\ UNCHANGED <<httpVars, utilVars>>

\* axum::serve(...).await.map_err(Into::into): the task ends with the
\* transport's result, once the requests in flight have been answered.
TaskComplete ==
    /\ task = "draining"
    /\ inflight = 0
    /\ task' = "finished"
    /\ handle' = taskOutcome
    /\ UNCHANGED <<listener_builder, port, bindOk, taskOutcome,
                   cancellation_token, builder_token, server_started,
                   server_builder, server, serverMutex, builderMutex, pc,
                   local, result, calls, signal, lastAddress, serverShutdowns,
                   taker>>
    /\ UNCHANGED <<httpVars, utilVars>>

\* The bound on the connections one behaviour accepts.
MaxConnections == 2

\* axum::serve: the accept loop of the serving task accepts a connection
\* and spawns the service for its request; it runs until the future given to
\* with_graceful_shutdown resolves.  The test listener never accepts.
Accept ==
    /\ task = "serving"
    /\ Accepts(listener_builder)
    /\ accepted < MaxConnections
    /\ accepted' = accepted + 1
    /\ inflight' = inflight + 1
    /\ UNCHANGED <<appVars, httpVars, codecVars, fakeVars>>

\* The service of a connection answers its request and the connection ends.
RequestDone ==
    /\ inflight > 0
    /\ inflight' = inflight - 1
    /\ UNCHANGED accepted
    /\ UNCHANGED <<appVars, httpVars, codecVars, fakeVars>>

----
(***************************************************************************)
(* App::wait_until_running and App::server_address                         *)
(***************************************************************************)

\* A caller enters wait_until_running().
WaitCall(p) ==
    /\ p \in WaitProcs
    /\ pc[p] = "idle"
    /\ pc' = [pc EXCEPT ![p] = "wait_running"]
    /\ UNCHANGED <<listener_builder, port, bindOk, taskOutcome,
                   cancellation_token, builder_token, server_started,
                   server_builder, server, serverMutex, builderMutex, task,
                   handle, local, result, calls, signal, lastAddress,
                   serverShutdowns, taker>>
    /\ UNCHANGED <<httpVars, utilVars>>

\* wait_until_running: self.server_started.cancelled().await resolves.
WaitUntilRunning(p) ==
    /\ pc[p] = "wait_running"
    /\ server_started
    /\ pc' = [pc EXCEPT ![p] = "addr_call"]
    /\ UNCHANGED <<listener_builder, port, bindOk, taskOutcome,
                   cancellation_token, builder_token, server_started,
                   server_builder, server, serverMutex, builderMutex, task,
                   handle, local, result, calls, signal, lastAddress,
                   serverShutdowns, taker>>
    /\ UNCHANGED <<httpVars, utilVars>>

\* server_address: lock the slot, .as_ref().map(Server::address), drop the
\* guard; one statement without a suspension point.
ServerAddressRead(p) ==
    /\ pc[p] = "addr_call"
    /\ serverMutex = None
    /\ lastAddress' = [lastAddress EXCEPT ![p] = server_address]
    /\ pc' = [pc EXCEPT ![p] = "addr_done"]
    /\ UNCHANGED <<listener_builder, port, bindOk, taskOutcome,
                   cancellation_token, builder_token, server_started,
                   server_builder, server, serverMutex, builderMutex, task,
                   handle, local, result, calls, signal, serverShutdowns,
                   taker>>
    /\ UNCHANGED <<httpVars, utilVars>>

----
Next ==
    \/ \E p \in RunProcs : RunCall(p)
    \/ \E p \in RunProcs : StartLockBuilder(p)
    \/ \E p \in RunProcs : StartTakeBuilder(p)
    \/ \E p \in RunProcs : BuildIntoListener(p)
    \/ \E p \in RunProcs : BuildSpawn(p)
    \/ \E p \in RunProcs : StartLockServer(p)
    \/ \E p \in RunProcs : StartStore(p)
    \/ \E p \in RunProcs : StartSignalStarted(p)
    \/ \E p \in RunProcs : WaitForShutdownSignal(p)
    \/ \E p \in ShutProcs : ShutdownCall(p)
    \/ \E p \in RunProcs \cup ShutProcs : ShutdownCancel(p)
    \/ \E p \in RunProcs \cup ShutProcs : ShutdownLock(p)
    \/ \E p \in RunProcs \cup ShutProcs : ShutdownTake(p)
    \/ \E p \in RunProcs \cup ShutProcs : ServerShutdownCancel(p)
    \/ \E p \in RunProcs \cup ShutProcs : ServerShutdownJoin(p)
    \/ TaskObserveCancel
    \/ TaskComplete
    \/ \E p \in WaitProcs : WaitCall(p)
    \/ \E p \in WaitProcs : WaitUntilRunning(p)
    \/ \E p \in WaitProcs : ServerAddressRead(p)

Spec == Init /\ [][Next]_vars

\* The production listener with clients that connect: the lifecycle together
\* with the connections of the serving task.
ServeInit ==
    /\ Init
    /\ listener_builder = "tcp"
    /\ bindOk
    /\ port = DefaultPort
    /\ taskOutcome = "Ok"

ServeNext == Next \/ Accept \/ RequestDone

ServeSpec == ServeInit /\ [][ServeNext]_vars

(***************************************************************************)
(* Fairness: the runtime keeps polling every task that can make progress:  *)
(* a caller inside run() or shutdown() and the serving task.  Entering a   *)
(* call and the arrival of Ctrl-C are the environment's choice.            *)
(***************************************************************************)
AppStep(p) ==
    \/ StartLockBuilder(p)
    \/ StartTakeBuilder(p)
    \/ BuildIntoListener(p)
    \/ BuildSpawn(p)
    \/ StartLockServer(p)
    \/ StartStore(p)
    \/ StartSignalStarted(p)
    \/ WaitBranch(p, "cancelled")
    \/ ShutdownCancel(p)
    \/ ShutdownLock(p)
    \/ ShutdownTake(p)
    \/ ServerShutdownCancel(p)
    \/ ServerShutdownJoin(p)
    \/ WaitUntilRunning(p)
    \/ ServerAddressRead(p)

\* The scenario of the lifecycle tests: the server is started on port 0.
FairInit == Init /\ port = 0

FairSpec ==
    /\ FairInit
    /\ [][Next]_vars
    /\ \A p \in Procs : WF_vars(AppStep(p))
    /\ WF_vars(TaskObserveCancel)
    /\ WF_vars(TaskComplete)

----
(***************************************************************************)
(* Lifecycle properties                                                    *)
(***************************************************************************)
Callers == RunProcs \cup ShutProcs

\* The caller is inside run(), past the point where it obtained the builder.
InRunWithBuilder(p) ==
    pc[p] \in {"build_listener", "build_spawn", "start_lock_server",
               "start_store", "start_signal", "wait_signal", "sd_cancel",
               "sd_lock", "sd_take", "srv_cancel", "srv_join"}

\* wait_until_running() has returned to the caller.
Released(w) == pc[w] \in {"addr_call", "addr_done"}

\* C1: shutdown() is idempotent at every point of the lifecycle: a call that
\* finds the server slot empty returns Ok at that very step, without waiting
\* for anything, and Server::shutdown is performed at most once per server.
C1_ShutdownIdempotent ==
    [][ /\ \A p \in Callers :
              (pc[p] = "sd_take" /\ pc'[p] # "sd_take" /\ ~server.some)
                  => (pc'[p] = "done" /\ result'[p] = "Ok")
        /\ serverShutdowns' <= 1 ]_vars

\* A second shutdown() by the same caller returned Ok after the only
\* Server::shutdown had been performed and the task had ended.
C1_Witness ==
    /\ serverShutdowns = 1
    /\ task = "finished"
    /\ calls["s1"] = 2
    /\ pc["s1"] = "done"
    /\ result["s1"] = "Ok"

\* C2: whenever run() has returned, Ok or Err, the lifecycle is Stopped: the
\* server slot is empty and no serving task is still running.
C2_RunReturnsStopped ==
    \A p \in RunProcs :
        pc[p] = "done" => (~server.some /\ task \in {"none", "finished"})

\* C3: readiness is raised only after the server is stored: while no
\* shutdown() has taken the server, a caller released by
\* wait_until_running() gets Some(address) from server_address(); before any
\* run() has begun, server_address() is None.
C3_ReadyAfterStored ==
    /\ \A w \in WaitProcs :
          (Released(w) /\ taker = None)
              => /\ server_address.some
                 /\ (pc[w] = "addr_done" => lastAddress[w].some)
    /\ (server_started /\ taker = None) => server_address.some
    /\ (\A p \in RunProcs : calls[p] = 0) => ~server_address.some

\* A released caller has read Some(address) while the server was untaken.
C3_Witness ==
    /\ pc["w1"] = "addr_done"
    /\ taker = None
    /\ lastAddress["w1"] = Some(local_addr(listener_builder, port))

\* C4: every shutdown() call eventually returns, and returns Ok when the
\* transport drains without error; once a shutdown() has taken the Running
\* server the serving task eventually completes, although the listener never
\* accepts a connection.
C4_ShutdownCompletes ==
    /\ \A p \in Callers :
          (pc[p] = "sd_cancel" /\ taskOutcome = "Ok")
              ~> (pc[p] = "done" /\ result[p] = "Ok")
    /\ (taker # None) ~> (task = "finished")

\* With the never-accepting listener: the first shutdown() took the Running
\* server and returned Ok, and so did a second one.
C4_Witness ==
    /\ listener_builder = "fake"
    /\ taker = "s1"
    /\ handle = "Ok"
    /\ calls["s1"] = 2
    /\ pc["s1"] = "done"
    /\ result["s1"] = "Ok"

\* C5: a run() that obtained the builder, whose bind succeeds and whose
\* serving task ends without error, eventually returns Ok once shutdown()
\* has been called, whether that happened before start, during start or
\* while Running.
C5_RunReturnsOk ==
    \A p \in RunProcs :
        (/\ InRunWithBuilder(p)
         /\ cancellation_token
         /\ into_listener(listener_builder, bindOk)
         /\ taskOutcome = "Ok")
            ~> (pc[p] = "done" /\ result[p] = "Ok")

\* The other caller's shutdown() found the slot empty (it ran before the
\* server was stored); run() was released by the token, shut the server down
\* itself and returned Ok.
C5_Witness ==
    /\ pc["r1"] = "done"
    /\ result["r1"] = "Ok"
    /\ signal["r1"] = "cancelled"
    /\ taker = "r1"
    /\ pc["s1"] = "done"
    /\ calls["s1"] = 1


----
(***************************************************************************)
(* Properties of the request pipeline                                      *)
(***************************************************************************)

\* The path the proxy is to forward: a single leading slash, the leading and
\* the trailing slashes of the inbound path trimmed.
Normalized(path) == <<"/">> \o TrimEnd(TrimStart(path))

\* The text a response to the caller carries, its content-encoding undone.
DecodedText(resp) ==
    decode_response_body(resp.body.bytes, is_gzip_encoded(resp.headers))

\* The initialization route answered with the rewritten upstream response.
Rewritten ==
    /\ hpc = "done"
    /\ route = "initialization"
    /\ upstream.ok
    /\ response.status = upstream.value.status
    /\ response.body.readable

\* C6: on the forwarding route, every request the upstream client observes
\* has scheme https and authority storeapi.kobo.com, a Host header that is
\* exactly storeapi.kobo.com, and the method, the body, the query and the
\* normalized path of the inbound request.
C6_UpstreamObserves ==
    route = "fallback" =>
        \A i \in 1..Len(recorded_requests) :
            LET seen == recorded_requests[i]
            IN  /\ seen.uri.scheme = "https"
                /\ seen.uri.authority = "storeapi.kobo.com"
                /\ seen.headers["host"] = <<"storeapi.kobo.com">>
                /\ seen.method = inbound.method
                /\ seen.body = inbound.body.bytes
                /\ seen.uri.path_and_query.some
                /\ seen.uri.path_and_query.value.path =
                       Normalized(inbound.uri.path_and_query.value.path)
                /\ seen.uri.path_and_query.value.query =
                       inbound.uri.path_and_query.value.query

C6_Witness ==
    /\ route = "fallback"
    /\ Len(recorded_requests) = 1
    /\ inbound.method = "POST"
    /\ inbound.uri.scheme = None
    /\ inbound.uri.path_and_query.value.path =
           <<"/", "/", "/", "some", "/", "path", "/", "/", "/">>
    /\ inbound.headers["host"] = <<"a.test", "b.test">>
    /\ inbound.body.bytes = <<"t">>
    /\ hpc = "done"

\* C7: a response that reaches the caller after the upstream client answered
\* with a response has no transfer-encoding header, on either route and with
\* either logging middleware.
C7_NoTransferEncoding ==
    (hpc = "done" /\ upstream.ok) =>
        response.headers["transfer-encoding"] = <<>>

C7_Witness ==
    /\ hpc = "done"
    /\ upstream.ok
    /\ upstream.value.headers["transfer-encoding"] = <<"gzip", "chunked">>
    /\ route = "initialization"
    /\ enable_request_logging
    /\ enable_response_logging
    /\ response.status = 200
    /\ response.body.bytes # <<>>

\* C8: the upstream client is invoked at most once for a request, and when
\* that invocation fails the caller gets 502 with an empty body, on either
\* route.
C8_SingleAttempt ==
    /\ clientCalls <= 1
    /\ Len(recorded_requests) <= 1
    /\ (hpc = "done" /\ clientCalls = 1 /\ ~upstream.ok) =>
           response = StatusResponse(BAD_GATEWAY)

C8_Witness ==
    /\ hpc = "done"
    /\ route = "initialization"
    /\ clientCalls = 1
    /\ upstream = TransportError
    /\ Len(recorded_requests) = 1
    /\ response.status = BAD_GATEWAY

\* C9, as the specification states it: a request whose URI has no
\* path-and-query is answered 400 and the upstream client is never invoked.
C9_Unforwardable ==
    (inbound # NoRequest /\ ~inbound.uri.path_and_query.some) =>
        /\ clientCalls = 0
        /\ recorded_requests = <<>>
        /\ hpc = "done" => response.status = BAD_REQUEST

\* C9, as the code has it: the upstream client is never invoked for a
\* request whose URI has no path-and-query, and the request is answered 400
\* unless log_requests could not read its body, which is answered 500
\* before the handler runs.
C9_UnforwardableUnlessBodyUnread ==
    (inbound # NoRequest /\ ~inbound.uri.path_and_query.some) =>
        /\ clientCalls = 0
        /\ recorded_requests = <<>>
        /\ hpc = "done" =>
               response.status =
                   IF enable_request_logging /\ ~inbound.body.readable
                   THEN INTERNAL_SERVER_ERROR
                   ELSE BAD_REQUEST

C9_Witness ==
    /\ hpc = "done"
    /\ inbound # NoRequest
    /\ ~inbound.uri.path_and_query.some
    /\ enable_response_logging
    /\ response = StatusResponse(BAD_REQUEST)
    /\ clientCalls = 0

\* C10: in a response of the initialization route, every occurrence of
\* https://storeapi.kobo.com in the upstream body is replaced by the
\* configured frontend_url, whatever the scheme and the authority of the
\* inbound request.
C10_FrontendUrlSubstituted ==
    (Rewritten /\ DecodedText(upstream.value).ok) =>
        /\ DecodedText(response).ok
        /\ DecodedText(response).value =
               replace(DecodedText(upstream.value).value,
                       KOBO_API_URL, frontend_url)

\* The scheme://authority of the inbound request URI, as a text.
InboundUrl == SchemeAuthority(inbound.uri.scheme, inbound.uri.authority)

C12_CompressionStateKept ==
    Rewritten =>
        /\ response.headers["content-encoding"] =
               upstream.value.headers["content-encoding"]
        /\ decompress_gzip(response.body.bytes).ok
               <=> upstream.value.headers["content-encoding"] = <<"gzip">>

C12_Witness ==
    /\ Rewritten
    /\ upstream.value.headers["content-encoding"] = <<"gzip">>
    /\ response.body.bytes # upstream.value.body.bytes
    /\ decompress_gzip(response.body.bytes).ok
    /\ inbound.uri.authority = "example.com:8080"
    /\ enable_response_logging

\* C13: the rewritten initialization response has the upstream's status and
\* headers, and a content-length header the upstream response carried states
\* the byte length of the rewritten body.
C13_ContentLengthRecomputed ==
    Rewritten =>
        /\ response.status = upstream.value.status
        /\ \A h \in HeaderNames \ {"content-length", "transfer-encoding"} :
               response.headers[h] = upstream.value.headers[h]
        /\ upstream.value.headers["content-length"] # <<>> =>
               response.headers["content-length"] =
                   <<ContentLength(response.body.bytes)>>

\* C14: on the initialization route a request URI without scheme or
\* authority, an upstream body that cannot be read, and an upstream body
\* that cannot be decoded are each answered with exactly 500.
C14_RewriteFailuresAre500 ==
    (hpc = "done" /\ route = "initialization") =>
        /\ (inbound.uri.scheme = None \/ inbound.uri.authority = None) =>
               response.status = 500
        /\ (upstream.ok /\ ~upstream.value.body.readable) =>
               response.status = 500
        /\ (upstream.ok /\ ~DecodedText(upstream.value).ok) =>
               response.status = 500

C14_Witness ==
    /\ hpc = "done"
    /\ route = "initialization"
    /\ upstream.ok
    /\ upstream.value.status = 200
    /\ upstream.value.headers["content-encoding"] = <<"gzip">>
    /\ upstream.value.body = BodyFrom(<<GzipMagic, "FF", "1">>)
    /\ response = StatusResponse(INTERNAL_SERVER_ERROR)

Unlogged(req, res) ==
    LET normalized == [req EXCEPT !.uri = NormalizePath(@)]
        handler == Route(normalized)
    IN  IF /\ handler = "initialization"
           /\ (req.uri.scheme = None \/ req.uri.authority = None)
        THEN StatusResponse(INTERNAL_SERVER_ERROR)
        ELSE IF ~retarget(normalized).ok
        THEN StatusResponse(retarget(normalized).status)
        ELSE IF ~sanitize(res).ok
        THEN StatusResponse(sanitize(res).status)
        ELSE IF handler = "fallback"
        THEN sanitize(res).value
        ELSE LET rewritten ==
                     rewrite(sanitize(res).value,
                             SchemeAuthority(req.uri.scheme, req.uri.authority))
             IN  IF rewritten.ok
                 THEN rewritten.value
                 ELSE StatusResponse(rewritten.status)

\* The bodies of the request and of the upstream response can be read.
BodiesReadable ==
    /\ inbound.body.readable
    /\ upstream.ok => upstream.value.body.readable

\* C16: logging is transparent: under each of the four combinations of the
\* two toggles, a request and an upstream response with readable bodies lead
\* to the same request body at the upstream client and to the same status,
\* headers and body at the caller; both are functions of the request and
\* the upstream result alone, the ones the chain without logging computes.
C16_LoggingTransparent ==
    (hpc = "done" /\ BodiesReadable) =>
        /\ response = Unlogged(inbound, upstream)
        /\ \A i \in 1..Len(recorded_requests) :
               recorded_requests[i].body = inbound.body.bytes

C16_Witness ==
    /\ hpc = "done"
    /\ enable_request_logging
    /\ enable_response_logging
    /\ BodiesReadable
    /\ inbound.body.bytes = <<"t">>
    /\ Len(recorded_requests) = 1
    /\ upstream.ok
    /\ upstream.value.headers["content-encoding"] = <<"gzip">>
    /\ upstream.value.body = BodyFrom(<<GzipMagic, "/sync">>)
    /\ route = "fallback"
    /\ response.body = upstream.value.body

----
(***************************************************************************)
(* Properties of the body codec                                            *)
(***************************************************************************)

\* The bytes are the UTF-8 encoding of a text: the one text they could
\* encode is encoded by exactly these bytes.
IsUtf8(bytes) == as_bytes(from_utf8_lossy(bytes)) = bytes

\* The bytes are the gzip stream of a text: what compress_gzip produces for
\* the one text their payload could encode.
IsGzipOfText(bytes) ==
    /\ Len(bytes) >= 2
    /\ compress_gzip(from_utf8_lossy(SubSeq(bytes, 2, Len(bytes) - 1))) = bytes

\* C17: codec round trip: for every text T and boolean C, decoding with C
\* the bytes that encode_response_body(T, C) produced succeeds and yields T.
C17_RoundTrip ==
    (codec_case = "round_trip" /\ codec_pc = "done") =>
        /\ codec_encoded.ok
        /\ codec_decoded.ok
        /\ codec_decoded.value = codec_text

C17_Witness ==
    /\ codec_case = "round_trip"
    /\ codec_pc = "done"
    /\ codec_compress
    /\ codec_text = <<"e-acute", "a", "U+FFFD">>
    /\ codec_bytes # as_bytes(codec_text)
    /\ codec_decoded.ok

\* C18: decode_response_body(B, g) fails, with 500, exactly when g is true
\* and B is not the gzip stream of a text; with g false it never fails: it
\* yields the text B encodes, or a text with the replacement character
\* where B is not UTF-8.
C18_DecodeFailsOnlyOnBadGzip ==
    (codec_case = "decode" /\ codec_pc = "done") =>
        /\ ~codec_decoded.ok <=>
               /\ codec_gzipped
               /\ ~IsGzipOfText(codec_bytes)
        /\ ~codec_decoded.ok => codec_decoded.status = 500
        /\ ~codec_gzipped =>
               IF IsUtf8(codec_bytes)
               THEN as_bytes(codec_decoded.value) = codec_bytes
               ELSE \E i \in 1..Len(codec_decoded.value) :
                        codec_decoded.value[i] = "U+FFFD"

C18_Witness ==
    /\ codec_case = "decode"
    /\ codec_pc = "done"
    /\ codec_gzipped
    /\ codec_bytes = <<GzipMagic, "FF", "1">>
    /\ codec_decoded = Err(INTERNAL_SERVER_ERROR)

\* C19: is_gzip_encoded is true only when the content-encoding value it
\* reads, the first one, is exactly gzip, and false when the header is
\* absent, names another encoding or is the compound value "br, gzip".
C19_ExactlyGzip ==
    (codec_case = "header" /\ codec_pc = "done") =>
        LET ce == codec_headers["content-encoding"]
        IN  /\ codec_is_gzip <=> (ce # <<>> /\ ce[1] = "gzip")
            /\ ce \in { <<>>, <<"deflate">>, <<"br, gzip">>, <<"GZIP">> } =>
                   ~codec_is_gzip

C19_Witness ==
    /\ codec_case = "header"
    /\ codec_pc = "done"
    /\ codec_headers["content-encoding"] = <<"br, gzip">>
    /\ ~codec_is_gzip

----
(***************************************************************************)
(* Properties of FakeKoboClient                                            *)
(***************************************************************************)

\* The number of items the first n returned calls took from the queue.
RECURSIVE TakenBefore(_)
TakenBefore(n) ==
    IF n = 0 THEN 0
    ELSE TakenBefore(n - 1) + (IF returned[n].item # 0 THEN 1 ELSE 0)

\* C20, as the specification states it: with sequential operations, the
\* k-th request() returns the k-th enqueued item when at least k items were
\* enqueued before it, and the error "No stubbed response configured"
\* otherwise (stated for calls whose bodies can all be read).
C20_KthCallKthItem ==
    (~overlap /\ \A j \in 1..Len(returned) :
                     returned[j].result # CollectError) =>
        \A k \in 1..Len(returned) :
            IF returned[k].enqueued_before >= k
            THEN /\ returned[k].item = k
                 /\ returned[k].result = enqueued[k].result
            ELSE returned[k].result = NoStubbedResponse

\* C20, as the code has it: the calls that take an item take the enqueued
\* items in the order they were enqueued, each once; a call returns "No
\* stubbed response configured" exactly when it has read its body and every
\* item enqueued so far has been taken; such a call, and one whose body
\* cannot be read, takes nothing, so the next call gets the oldest item
\* still queued.
C20_FifoOncePerTake ==
    \A k \in 1..Len(returned) :
        /\ returned[k].item # 0 =>
               /\ returned[k].item = TakenBefore(k - 1) + 1
               /\ returned[k].item <= returned[k].enqueued_before
               /\ returned[k].result = enqueued[returned[k].item].result
        /\ returned[k].item = 0 =>
               \/ /\ returned[k].result = NoStubbedResponse
                  /\ TakenBefore(k - 1) = returned[k].enqueued_before
               \/ returned[k].result = CollectError

C20_Witness ==
    /\ ~overlap
    /\ Len(returned) = 2
    /\ Len(enqueued) = 2
    /\ ~enqueued[1].result.ok
    /\ enqueued[2].result.ok
    /\ returned[1].item = 1
    /\ returned[2].item = 2
    /\ returned[2].result = enqueued[2].result
    /\ responses = <<>>

\* The RecordedRequest of a request.
Recorded(req) ==
    [method |-> req.method, uri |-> req.uri, headers |-> req.headers,
     body |-> req.body.bytes]

\* The number of the first n returned calls that got past reading the body.
RECURSIVE RecordedBefore(_)
RecordedBefore(n) ==
    IF n = 0 THEN 0
    ELSE RecordedBefore(n - 1)
             + (IF returned[n].result # CollectError THEN 1 ELSE 0)

\* The callers that have recorded their request and not yet returned.
Recording == { c \in FakeClients : fpc[c] = "take" }

\* The log only grows at its end, by the request of the caller that
\* records, and an enqueue leaves it alone.
LogStep ==
    /\ Len(recorded_requests') >= Len(recorded_requests)
    /\ Len(recorded_requests') <= Len(recorded_requests) + 1
    /\ SubSeq(recorded_requests', 1, Len(recorded_requests))
           = recorded_requests
    /\ enqueued' # enqueued => recorded_requests' = recorded_requests
    /\ \A c \in FakeClients :
           (fpc[c] = "record" /\ fpc'[c] = "take") =>
               recorded_requests' =
                   Append(recorded_requests, Recorded(fake_request[c]))

\* C21, as the specification states it: every request() call appends
\* exactly one RecordedRequest, so the log has one entry per call that has
\* returned or has reached the queue.
C21_OneEntryPerCall ==
    Len(recorded_requests) = Len(returned) + Cardinality(Recording)

\* C21, as the code has it: the log is append-only and in call order, an
\* enqueue leaves it unchanged, and every request() call that has read its
\* body appends exactly one RecordedRequest, whatever it then returns; a
\* call whose body cannot be read returns before it records anything.
C21_AppendOnlyLog ==
    /\ [](/\ Len(recorded_requests)
                 = RecordedBefore(Len(returned)) + Cardinality(Recording)
          /\ \A k \in 1..Len(returned) :
                 /\ returned[k].result = CollectError =>
                        returned[k].logged = 0
                 /\ (~overlap /\ returned[k].result # CollectError) =>
                        returned[k].logged = RecordedBefore(k))
    /\ [][LogStep]_vars

C21_Witness ==
    /\ ~overlap
    /\ Len(returned) = 2
    /\ Len(recorded_requests) = 2
    /\ returned[1].result = NoStubbedResponse
    /\ returned[2].result.ok
    /\ recorded_requests[1].method = "POST"
    /\ recorded_requests[2].method = "GET"

\* C22: every error response the proxy itself produces (400, 500, 502),
\* from the handlers and from the logging middleware alike, has an empty
\* body.  (The upstream answers 200 or 404 only, so these statuses are the
\* proxy's own.)
C22_ErrorsCarryOnlyStatus ==
    (/\ hpc = "done"
     /\ response.status
            \in {BAD_REQUEST, INTERNAL_SERVER_ERROR, BAD_GATEWAY})
        => response.body = EmptyBody

----
(***************************************************************************)
(* Further lifecycle properties                                            *)
(***************************************************************************)

\* C23: once shutdown() has cancelled the App's token, a serving task, if
\* one is ever spawned, eventually observes the cancellation of the token
\* handed to the server builder and stops accepting, in every interleaving
\* of shutdown() with the start.
C23_TaskObservesCancel ==
    (cancellation_token /\ task = "serving")
        ~> (builder_token /\ task # "serving")

\* The other caller's only shutdown() returned without taking the server;
\* run() was released by the App's token, took the server itself, and the
\* task has observed the builder's token.
C23_Witness ==
    /\ pc["s1"] = "done"
    /\ calls["s1"] = 1
    /\ taker \in RunProcs
    /\ signal[taker] = "cancelled"
    /\ cancellation_token
    /\ builder_token
    /\ task = "draining"

\* C24: the result of the serving task is surfaced to the caller that took
\* the server: the shutdown() that removed the server from the slot returns
\* what the task ended with, an error or a join error included; when that
\* call is run()'s, run() returns it; and the slot is empty from the take on.
C24_TaskResultSurfaced ==
    /\ [](/\ \A p \in RunProcs :
                 (pc[p] = "done" /\ taker = p) =>
                     (handle = taskOutcome /\ result[p] = taskOutcome)
          /\ taker # None => ~server.some)
    /\ [][\A p \in Callers :
              (pc[p] = "srv_join" /\ pc'[p] = "done") =>
                  /\ taker = p
                  /\ result'[p] = taskOutcome
                  /\ ~server'.some]_vars

\* The task ended with an error; run() took the server in its own
\* shutdown() and returned that error; the slot is empty.
C24_Witness ==
    /\ taskOutcome = "Err"
    /\ taker = "r1"
    /\ pc["r1"] = "done"
    /\ result["r1"] = "Err"
    /\ ~server.some

\* The caller is at an await: inside ServerBuilder::build, inside
\* Server::shutdown, or in wait_for_shutdown_signal.
Suspended(p) ==
    pc[p] \in {"build_listener", "build_spawn", "srv_cancel", "srv_join",
               "wait_signal"}

\* C25: no lifecycle lock is held across a suspension point: a caller that
\* awaits the build, the serving task or the shutdown signal holds neither
\* the mutex of the server slot nor the mutex of the builder.
C25_NoLockAcrossAwait ==
    \A p \in Callers :
        Suspended(p) => (serverMutex # p /\ builderMutex # p)

\* While one run() is suspended in the build, another run() holds the
\* builder's mutex and a shutdown() holds the mutex of the server slot.
C25_Witness ==
    /\ pc["r1"] = "build_spawn"
    /\ builderMutex = "r2"
    /\ pc["s1"] = "sd_take"
    /\ serverMutex = "s1"

----
(***************************************************************************)
(* Further properties of the request pipeline                              *)
(***************************************************************************)

\* The inbound request URI lacks a scheme or an authority.
NoOrigin == inbound.uri.scheme = None \/ inbound.uri.authority = None

\* C26: on the rewrite route the steps run in order: scheme and authority
\* are captured before the request is forwarded, so a request without them
\* is answered 500 and the client is never called; and the body is read and
\* rewritten only after the one upstream call has returned a response.
C26_StepsInOrder ==
    route = "initialization" =>
        /\ hpc \in {"forward", "client", "forward_result", "init_rewrite"}
               => (~NoOrigin /\ request_url = InboundUrl)
        /\ clientCalls > 0 => (~NoOrigin /\ request_url = InboundUrl)
        /\ (NoOrigin /\ hpc = "done")
               => (clientCalls = 0 /\ response.status = INTERNAL_SERVER_ERROR)
        /\ hpc = "init_rewrite" => (clientCalls = 1 /\ upstream.ok)
        /\ (hpc = "done" /\ clientCalls = 1 /\ ~upstream.ok)
               => response = StatusResponse(BAD_GATEWAY)

\* GET /v1/initialization in origin form, no logging: the handler answered
\* 500 and the client was not called.
C26_Witness ==
    /\ hpc = "done"
    /\ route = "initialization"
    /\ ~enable_request_logging
    /\ inbound.body.readable
    /\ inbound.uri = OriginForm(INIT_PATH, None)
    /\ clientCalls = 0
    /\ recorded_requests = <<>>
    /\ response = StatusResponse(INTERNAL_SERVER_ERROR)

\* The headers carry exactly one Host value, storeapi.kobo.com, and none of
\* the Host values of the inbound request.
HostOverwritten(headers) ==
    /\ Len(headers["host"]) = 1
    /\ headers["host"][1] = KOBO_API_BASE_URI
    /\ \A k \in 1..Len(inbound.headers["host"]) :
           \A j \in 1..Len(headers["host"]) :
               headers["host"][j] # inbound.headers["host"][k]

\* C27: Host is overwritten, not merged: whether the inbound request has
\* zero, one or several Host values, the request handed to the upstream
\* client, on either route, has exactly one Host value, storeapi.kobo.com,
\* and none of the client's.
C27_HostOverwritten ==
    /\ hpc = "client" => HostOverwritten(request.headers)
    /\ \A i \in 1..Len(recorded_requests) :
           HostOverwritten(recorded_requests[i].headers)

\* A request with one Host value of its own was forwarded.
C27_Witness ==
    /\ route = "fallback"
    /\ Len(recorded_requests) = 1
    /\ inbound.method = "GET"
    /\ inbound.headers["host"] = <<"example.com:8080">>
    /\ recorded_requests[1].headers["host"] = <<"storeapi.kobo.com">>
    /\ hpc = "done"

\* The two header maps agree on every name but the given one.
SameHeadersBut(name, a, b) ==
    \A h \in HeaderNames \ {name} : a[h] = b[h]

\* One step of the forwarding handler changes nothing beyond the
\* retargeting and the sanitization.
ForwardFrame ==
    /\ (hpc = "forward" /\ hpc' = "client") =>
           /\ request'.method = request.method
           /\ request'.body = request.body
           /\ request'.uri.path_and_query = request.uri.path_and_query
           /\ SameHeadersBut("host", request'.headers, request.headers)
    /\ (hpc = "client" /\ recorded_requests' # recorded_requests) =>
           recorded_requests' =
               Append(recorded_requests,
                      [method |-> request.method, uri |-> request.uri,
                       headers |-> request.headers,
                       body |-> request.body.bytes])
    /\ (hpc = "forward_result" /\ upstream.ok) =>
           /\ response'.status = upstream.value.status
           /\ response'.body = upstream.value.body
           /\ SameHeadersBut("transfer-encoding", response'.headers,
                             upstream.value.headers)

\* C28: forwarding changes nothing beyond the retargeting and the
\* sanitization: the request handed to the upstream client has the method,
\* the body, the path and query and every header but Host of the request
\* the handler received, and the handler's response has the status, the
\* body and every header but transfer-encoding of the upstream response;
\* without logging layers the same holds from the inbound request to the
\* response of the forwarding route.
C28_ForwardingFrame ==
    /\ [][ForwardFrame]_vars
    /\ [](\A i \in 1..Len(recorded_requests) :
              /\ recorded_requests[i].method = inbound.method
              /\ recorded_requests[i].body = inbound.body.bytes
              /\ recorded_requests[i].uri.path_and_query.value.query
                     = inbound.uri.path_and_query.value.query
              /\ SameHeadersBut("host", recorded_requests[i].headers,
                                inbound.headers))
    /\ []((/\ hpc = "done"
           /\ route = "fallback"
           /\ upstream.ok
           /\ ~enable_response_logging) =>
              /\ response.status = upstream.value.status
              /\ response.body = upstream.value.body
              /\ SameHeadersBut("transfer-encoding", response.headers,
                                upstream.value.headers))

\* A POST that states a gzip body was forwarded with that header and body,
\* and the upstream's 404 with its content headers came back unchanged.
C28_Witness ==
    /\ hpc = "done"
    /\ route = "fallback"
    /\ ~enable_response_logging
    /\ inbound.method = "POST"
    /\ inbound.headers["content-encoding"] = <<"gzip">>
    /\ inbound.headers["host"] = <<"example.com:8080">>
    /\ Len(recorded_requests) = 1
    /\ recorded_requests[1].headers["content-encoding"] = <<"gzip">>
    /\ recorded_requests[1].body = <<"t">>
    /\ upstream.ok
    /\ upstream.value.status = 404
    /\ upstream.value.headers["transfer-encoding"] = <<"gzip", "chunked">>
    /\ upstream.value.headers["content-encoding"] = <<"br, gzip">>
    /\ upstream.value.headers["content-length"] # <<>>
    /\ response.headers["content-encoding"] = <<"br, gzip">>
    /\ response.headers["content-length"]
           = upstream.value.headers["content-length"]
    /\ response.status = 404

\* C29: cancelling the shutdown signal does not abort a request in flight:
\* the request is answered, no new connection is accepted once shutdown()
\* has cancelled the signal, and the serving task completes only after the
\* requests in flight have finished.
C29_GracefulDrain ==
    /\ [][accepted' # accepted => ~cancellation_token]_vars
    /\ [](task = "finished" => inflight = 0)

\* C30: the frontend URL of the server state is never the empty string,
\* whether the option was omitted, supplied or supplied empty, and no
\* request changes it once the state is built.
C30_FrontendUrlFixedNonEmpty ==
    /\ [](frontend_url # <<>>)
    /\ [][frontend_url' = frontend_url]_vars

----
(***************************************************************************)
(* Further lifecycle properties: start and concurrent callers              *)
(***************************************************************************)

\* The addresses the App has published: the one of the stored server and
\* the ones server_address() has returned.
Published ==
    (IF server.some THEN {address(server.value)} ELSE {})
        \cup { lastAddress[w].value : w \in { v \in WaitProcs :
                                                  lastAddress[v].some } }

\* C31, as the specification states it: a server built with configured
\* port 0 publishes an address whose port is non-zero, with the TCP listener
\* and with the test listener alike.
C31_PortZeroPublishesNonZero ==
    port = 0 => \A a \in Published : a.port # 0

\* C31, as the code has it: the published address is the one the listener
\* reports after its bind; with configured port 0 the TCP listener reports
\* the non-zero port the operating system assigned, and the test listener
\* reports the configured port, that is 0.
C31_PublishedIsListenerAddress ==
    \A a \in Published :
        /\ a.ip = "0.0.0.0"
        /\ (listener_builder = "tcp" /\ port = 0) =>
               (a.port # 0 /\ a.port = EphemeralPort)
        /\ (listener_builder = "tcp" /\ port # 0) => a.port = port
        /\ listener_builder = "fake" => a.port = port

\* Port 0 with the TCP listener: a caller has read the assigned port.
C31_Witness ==
    /\ listener_builder = "tcp"
    /\ port = 0
    /\ pc["w1"] = "addr_done"
    /\ lastAddress["w1"].some
    /\ lastAddress["w1"].value.port = EphemeralPort
    /\ server.some

\* The callers that are building or storing a server.
Building ==
    { p \in RunProcs :
        pc[p] \in {"build_listener", "build_spawn", "start_lock_server",
                   "start_store", "start_signal"} }

\* C32: an App builds at most one server: the first start consumes the
\* builder, every later run(), sequential or concurrent, returns "Server
\* builder is not set" at the take, without binding, spawning or touching
\* the slot; a stored server is never replaced, and after the server was
\* taken the lifecycle never becomes Running again.
C32_AtMostOneServer ==
    /\ [](/\ Cardinality(Building) <= 1
          /\ Building # {} => server_builder = None
          /\ \A p \in Building : pc[p] # "start_signal" => ~server.some
          /\ \A p \in RunProcs :
                 (pc[p] = "done"
                  /\ result[p] = "Err: Server builder is not set")
                     => server_builder = None)
    /\ [][/\ \A p \in RunProcs :
                 (/\ pc[p] = "start_take_builder"
                  /\ pc'[p] # "start_take_builder"
                  /\ server_builder = None) =>
                     /\ pc'[p] = "done"
                     /\ result'[p] = "Err: Server builder is not set"
                     /\ UNCHANGED <<server, task, server_started,
                                    server_builder>>
          /\ (task' = "serving" /\ task # "serving") => task = "none"
          /\ (server.some /\ server'.some) => server' = server
          /\ taker # None => ~server'.some
          /\ server_builder = None => server_builder' = None]_vars

\* A second run() was refused while the server of the first was Running,
\* and the slot still holds that server.
C32_Witness ==
    /\ pc["r2"] = "done"
    /\ result["r2"] = "Err: Server builder is not set"
    /\ pc["r1"] = "wait_signal"
    /\ server.some
    /\ task = "serving"
    /\ taker = None

\* The listener cannot be bound.
StartFails == ~into_listener(listener_builder, bindOk)

Joining == { p \in Callers : pc[p] \in {"srv_cancel", "srv_join"} }

\* C34: under concurrent shutdown() calls exactly one call removes the
\* server from the slot and awaits the task; every other call finds the
\* slot empty and returns Ok at that step, whatever the task is doing, so
\* it may return while the task is still running.
C34_OneTakerOthersReturn ==
    /\ [](/\ Cardinality(Joining) <= 1
          /\ Joining \subseteq {taker}
          /\ taker = None => serverShutdowns = 0)
    /\ [][/\ taker # None => taker' = taker
          /\ \A p \in Callers :
                 (pc[p] = "sd_take" /\ pc'[p] # "sd_take") =>
                     IF server.some
                     THEN /\ taker = None
                          /\ taker' = p
                          /\ ~server'.some
                          /\ pc'[p] = "srv_cancel"
                     ELSE /\ pc'[p] = "done"
                          /\ result'[p] = "Ok"
                          /\ UNCHANGED <<task, taker, builder_token>>]_vars

\* The other caller's shutdown() took the server and is awaiting the task,
\* which has not even observed the cancellation; run()'s own shutdown found
\* the slot empty and run() has returned Ok.
C34_Witness ==
    /\ taker = "s1"
    /\ pc["s1"] = "srv_join"
    /\ task = "serving"
    /\ pc["r1"] = "done"
    /\ result["r1"] = "Ok"
    /\ signal["r1"] = "cancelled"

----
(***************************************************************************)
(* The test-double client under concurrent callers                         *)
(***************************************************************************)

\* The log positions of the calls that have passed the recording step: the
\* calls that returned after it and the calls between the push and the pop.
PositionsReturned ==
    { returned[k].position :
          k \in { j \in 1..Len(returned) :
                      returned[j].result # CollectError } }
PositionsRecording == { log_index[c] : c \in Recording }

\* Every call that has returned received an enqueued result.
AllServed == \A k \in 1..Len(returned) : returned[k].item # 0

\* C35, as posed: in every interleaving of concurrent request() calls the
\* i-th entry of the log belongs to the call that received the i-th
\* enqueued result (stated for behaviours in which every call received
\* one), and the log has one entry per call past the recording step.
C35_LogEntryOfTaker ==
    /\ Len(recorded_requests)
           = RecordedBefore(Len(returned)) + Cardinality(Recording)
    /\ AllServed =>
           \A k \in 1..Len(returned) :
               returned[k].position = returned[k].item

\* C35, as the code has it: the log has exactly one entry per call past the
\* recording step, each such call owning a position of its own that holds
\* its request, in the order of the pushes; the results are handed out in
\* the order of the pops.  The two orders agree when the calls do not
\* overlap, and need not agree when they do.
C35_LogFollowsPushes ==
    /\ Len(recorded_requests)
           = RecordedBefore(Len(returned)) + Cardinality(Recording)
    /\ PositionsReturned \cup PositionsRecording
           = 1..Len(recorded_requests)
    /\ Cardinality(PositionsRecording) = Cardinality(Recording)
    /\ Cardinality(PositionsReturned) = RecordedBefore(Len(returned))
    /\ \A c \in Recording :
           recorded_requests[log_index[c]] = Recorded(fake_request[c])
    /\ \A k, l \in 1..Len(returned) :
           (k < l /\ returned[k].item # 0 /\ returned[l].item # 0) =>
               returned[k].item < returned[l].item
    /\ (AllServed /\ ~overlap) =>
           \A k \in 1..Len(returned) :
               returned[k].position = returned[k].item

\* Two overlapping calls: the call that pushed second popped first, so the
\* first entry of the log belongs to the call that received the second
\* enqueued result.
C35_Witness ==
    /\ Len(returned) = 2
    /\ returned[1].position = 2
    /\ returned[1].item = 1
    /\ returned[2].position = 1
    /\ returned[2].item = 2
    /\ Len(recorded_requests) = 2

----
(***************************************************************************)
(* Failures of the forward on the rewrite route                            *)
(***************************************************************************)

\* On the rewrite route the delegated kobo_store_request is about to fail:
\* the request cannot be retargeted, or the client returned an error.
ForwardFailing ==
    /\ route = "initialization"
    /\ \/ hpc = "forward" /\ ~retarget(request).ok
       \/ hpc = "forward_result" /\ ~upstream.ok

\* The status kobo_store_request fails with.
FailureStatus ==
    IF hpc = "forward"
    THEN retarget(request).status
    ELSE sanitize(upstream).status

\* The step of a failing forward: the handler is left with the status of the
\* failure as its answer and the rewrite is not entered.
PropagateStep ==
    ForwardFailing =>
        /\ FailureStatus \in {BAD_REQUEST, BAD_GATEWAY}
        /\ response' = StatusResponse(FailureStatus)
        /\ hpc' = AfterHandler
        /\ request_url' = request_url

\* The rewrite is entered only with a response of the client, and after a
\* client error the answer stays the bare 502.
RewriteOnlyOnSuccess ==
    route = "initialization" =>
        /\ hpc = "init_rewrite" => (upstream.ok /\ response.status # 0)
        /\ (clientCalls > 0 /\ ~upstream.ok
                /\ hpc \in {"log_responses", "done"})
               => response = StatusResponse(BAD_GATEWAY)

\* C36: the Response Rewriter propagates the failures of the Forwarding
\* Handler unchanged: when the delegated forward fails with 400 or 502, the
\* rewrite route answers with that same status and reads, decodes,
\* substitutes and re-encodes no body.
C36_ForwardFailurePropagates ==
    /\ []RewriteOnlyOnSuccess
    /\ [][PropagateStep]_vars

\* GET /v1/initialization in absolute form, response logging on, the client
\* failed: the answer is the bare 502.
C36_Witness ==
    /\ hpc = "done"
    /\ route = "initialization"
    /\ enable_response_logging
    /\ clientCalls = 1
    /\ upstream = TransportError
    /\ request_url = InboundUrl
    /\ response = StatusResponse(BAD_GATEWAY)

====
